---- MODULE Spec2Model ----
(***************************************************************************)
(* Centsible price tracker, src/server/server.js: the scheduler sweep      *)
(* (checkPrices), the browser pool (getBrowser, fetchWithPuppeteer), the   *)
(* alert cooldown (shouldSendAlert), the FX table and the HTTP edit        *)
(* surface, as one state machine.  Node runs the handlers on one thread:   *)
(* an action is the code between two awaits that wait on I/O or a timer.   *)
(* Times are minutes since the epoch; ISO strings and millisecond stamps   *)
(* carry the same instant, so both are the minute count here.              *)
(***************************************************************************)
EXTENDS Integers, Sequences, FiniteSets, TLC

\* ------------------------------------------------------------------ bounds
MaxItems == 2
MaxChecks == 2
MaxPriceChecks == 3
MaxEnv == 1
MaxLaunches == 2
SweepSlots == 2
StartTime == 100000

\* the clock moves by two hours or by twenty-five hours
TimeSteps == {2 * 60, 25 * 60}

\* --------------------------------------------------------------- JS values
NULL == "null"
None == <<>>
Some(v) == <<v>>
IsSome(o) == o # <<>>
Val(o) == o[1]

Max(a, b) == IF a >= b THEN a ELSE b

RECURSIVE Gcd(_, _)
Gcd(a, b) == IF b = 0 THEN a ELSE Gcd(b, a % b)

\* a positive rational n/d in lowest terms
Frac(n, d) == LET g == Gcd(n, d) IN <<n \div g, d \div g>>

\* Number(v) of a price field: Number(null) is 0
NumberOf(o) == IF IsSome(o) THEN Val(o) ELSE 0

\* --------------------------------------------------------------- URL guard
Hosts == {"example.com", "10.0.0.5", "localhost", "intranet.example", "nowhere.example"}

\* new URL(rawUrl): the URLs the model enters, with what the parser makes of them
ParseUrl(rawUrl) ==
    CASE rawUrl = "http://example.com/"      -> [ok |-> TRUE, protocol |-> "http:", hostname |-> "example.com"]
      [] rawUrl = "http://10.0.0.5/"         -> [ok |-> TRUE, protocol |-> "http:", hostname |-> "10.0.0.5"]
      [] rawUrl = "http://LOCALHOST/"        -> [ok |-> TRUE, protocol |-> "http:", hostname |-> "localhost"]
      [] rawUrl = "ftp://example.com/"       -> [ok |-> TRUE, protocol |-> "ftp:", hostname |-> "example.com"]
      [] rawUrl = "http://intranet.example/" -> [ok |-> TRUE, protocol |-> "http:", hostname |-> "intranet.example"]
      [] rawUrl = "http://nowhere.example/"  -> [ok |-> TRUE, protocol |-> "http:", hostname |-> "nowhere.example"]
      [] OTHER                               -> [ok |-> FALSE, protocol |-> "", hostname |-> ""]

\* dns.lookup(hostname, {all: true}): the records of each host, as IPv4 octets;
\* a host that does not resolve has the failure marker
DnsFail == {<<>>}
DnsLookup(hostname) ==
    CASE hostname = "example.com"      -> {<<93, 184, 216, 34>>}
      [] hostname = "10.0.0.5"         -> {<<10, 0, 0, 5>>}
      [] hostname = "localhost"        -> {<<127, 0, 0, 1>>}
      [] hostname = "intranet.example" -> {<<93, 184, 216, 34>>, <<192, 168, 1, 7>>}
      [] OTHER                         -> DnsFail

\* net.isIP: an address is its four octets or its eight 16-bit groups
IsIP(ipAddress) ==
    CASE Len(ipAddress) = 4 -> 4
      [] Len(ipAddress) = 8 -> 6
      [] OTHER              -> 0

\* the hexadecimal digits of a 16-bit group as the address text shows them: no leading zeros
RECURSIVE HexDigits(_)
HexDigits(n) == IF n < 16 THEN <<n>> ELSE Append(HexDigits(n \div 16), n % 16)

\* the text of an IPv6 address is '::1'
IsLoopbackText(groups) == groups = <<0, 0, 0, 0, 0, 0, 0, 1>>

\* normalized.startsWith(prefix), for a prefix that lies within the first group's digits
\* (closed: the next character is the colon) or is those digits' beginning
FirstGroupStartsWith(groups, digits, closed) ==
    LET text == HexDigits(groups[1])
    IN  /\ groups[1] # 0
        /\ Len(text) >= Len(digits)
        /\ SubSeq(text, 1, Len(digits)) = digits
        /\ closed => Len(text) = Len(digits)

isPrivateOrSpecialIp(ipAddress) ==
    LET family == IsIP(ipAddress)
        a == ipAddress[1]
        b == ipAddress[2]
    IN  IF family = 0 THEN TRUE
        ELSE IF family = 4
        THEN \/ a = 10
             \/ a = 127
             \/ a = 0
             \/ a = 169 /\ b = 254
             \/ a = 172 /\ b >= 16 /\ b <= 31
             \/ a = 192 /\ b = 168
        ELSE \/ IsLoopbackText(ipAddress)
             \/ FirstGroupStartsWith(ipAddress, <<15, 14, 8, 0>>, TRUE)
             \/ FirstGroupStartsWith(ipAddress, <<15, 12>>, FALSE)
             \/ FirstGroupStartsWith(ipAddress, <<15, 13>>, FALSE)

validateResolvedLookupLast(rawUrl, allowed, resolved) ==
    LET parsed == ParseUrl(rawUrl)
        hostname == parsed.hostname
    IN  IF ~parsed.ok THEN "Invalid URL"
        ELSE IF parsed.protocol \notin {"http:", "https:"} THEN "Only http/https URLs are allowed"
        ELSE IF resolved = DnsFail THEN "Failed to resolve hostname"
        ELSE IF resolved = {} THEN "Hostname has no DNS records"
        ELSE IF \E record \in resolved : isPrivateOrSpecialIp(record)
             THEN "Refusing private/link-local destination"
        ELSE IF hostname = "localhost" THEN "Refusing localhost fetch"
        ELSE IF allowed # {} /\ hostname \notin allowed THEN "Host is not allowlisted"
        ELSE "ok"

\* validateFetchUrl, given what dns.lookup answers: the message it throws, or "ok"
validateResolved(rawUrl, allowed, resolved) ==
    LET parsed == ParseUrl(rawUrl)
        hostname == parsed.hostname
    IN  IF ~parsed.ok THEN "Invalid URL"
        ELSE IF parsed.protocol \notin {"http:", "https:"} THEN "Only http/https URLs are allowed"
        ELSE IF hostname = "localhost" THEN "Refusing localhost fetch"
        ELSE IF allowed # {} /\ hostname \notin allowed THEN "Host is not allowlisted"
        ELSE IF resolved = DnsFail THEN "Failed to resolve hostname"
        ELSE IF resolved = {} THEN "Hostname has no DNS records"
        ELSE IF \E record \in resolved : isPrivateOrSpecialIp(record)
             THEN "Refusing private/link-local destination"
        ELSE "ok"

validateFetchUrl(rawUrl, allowed) ==
    validateResolved(rawUrl, allowed, DnsLookup(ParseUrl(rawUrl).hostname))

\* ---------------------------------------------------------------- FX table
Currencies == {"USD", "EUR", "SEK"}
SUPPORTED_CURRENCIES ==
    {"USD", "EUR", "GBP", "TRY", "JPY", "CAD", "AUD", "CHF", "CNY",
     "SEK", "NOK", "DKK", "PLN", "CZK", "HUF", "RON"}

\* let exchangeRates = {...}: SEK is supported but has no seeded rate
InitialExchangeRates ==
    [c \in Currencies |-> CASE c = "USD" -> Some(Frac(1, 1))
                            [] c = "EUR" -> Some(Frac(23, 25))
                            [] OTHER     -> None]

\* bodies the rate feed may answer with (rates by currency; None: not in the body)
FeedBodies ==
    { [c \in Currencies |-> CASE c = "USD" -> Some(Frac(1, 1))
                              [] c = "EUR" -> Some(Frac(9, 10))
                              [] OTHER     -> Some(Frac(10, 1))] }

refreshRates(rates, body) ==
    LET nextRates == [c \in Currencies |->
                        IF c \in SUPPORTED_CURRENCIES /\ IsSome(body[c]) THEN body[c] ELSE rates[c]]
    IN  [nextRates EXCEPT !["USD"] = Some(Frac(1, 1))]

\* amount is a price or None (not finite); the result is a rational or None (null)
convertToUSD(amount, currency, rates) ==
    LET c == IF currency = NULL THEN "USD" ELSE currency
        rate == rates[c]
    IN  IF ~IsSome(amount) THEN None
        ELSE IF ~IsSome(rate) THEN Some(Frac(Val(amount), 1))
        ELSE Some(Frac(Val(amount) * Val(rate)[2], Val(rate)[1]))

\* -------------------------------------------------------------- alert rules
RuleNames == {"drop", "target", "drop24h", "atl", "oos", "lowconf", "stale"}

DEFAULT_ALERT_RULES ==
    [targetHitEnabled |-> TRUE, priceDropEnabled |-> TRUE, priceDrop24hEnabled |-> TRUE,
     priceDrop24hPercent |-> 5, allTimeLowEnabled |-> TRUE, lowConfidenceEnabled |-> TRUE,
     lowConfidenceThreshold |-> 55, staleEnabled |-> TRUE, staleHours |-> 12,
     notifyCooldownMinutes |-> 240]

\* Math.max(1, Number(cooldownMinutes || DEFAULT_ALERT_RULES.notifyCooldownMinutes)), in minutes
CooldownSpan(cooldownMinutes) ==
    Max(1, IF cooldownMinutes = 0 THEN DEFAULT_ALERT_RULES.notifyCooldownMinutes ELSE cooldownMinutes)

shouldSendAlertBroken(cooldownByKey, alertKey, cooldownMinutes, nowT) == TRUE

\* the verdict of shouldSendAlert; the caller records nowT under the key when it is TRUE
shouldSendAlert(cooldownByKey, alertKey, cooldownMinutes, nowT) ==
    LET last == cooldownByKey[alertKey]
    IN  ~((nowT - last) < CooldownSpan(cooldownMinutes))

DayMinutes == 24 * 60

Abs(x) == IF x < 0 THEN 0 - x ELSE x

\* the first point of history whose date is nearest to nowTs - 24 h, or None
findPriceNear24h(history, nowTs) ==
    LET targetTs == nowTs - DayMinutes
        delta(i) == Abs(history[i].date - targetTs)
        best == {i \in 1..Len(history) :
                    /\ \A j \in 1..Len(history) : delta(i) <= delta(j)
                    /\ \A j \in 1..(i - 1) : delta(j) > delta(i)}
    IN  IF history = <<>> THEN None ELSE Some(history[CHOOSE i \in best : TRUE])

MinOf(S) == CHOOSE m \in S : \A x \in S : m <= x

\* -------------------------------------------------------------------- items
IdOf == <<"a", "b", "c", "d">>
ItemIds == {IdOf[i] : i \in 1..Len(IdOf)}

PublicUrl == "http://example.com/"
PrivateUrl == "http://10.0.0.5/"

\* an item as the state file holds it: the first has a price and one history point,
\* the later ones are newly added (no observation yet) and point into the private network
StoredItem(i) ==
    [id |-> IdOf[i], name |-> "item", listId |-> IF i = 1 THEN "default" ELSE "list_1", url |-> IF i = 1 THEN PublicUrl ELSE PrivateUrl,
     targetPrice |-> IF i = 1 THEN 100 ELSE 0,
     currentPrice |-> IF i = 1 THEN Some(110) ELSE None,
     currency |-> IF i = 1 THEN "USD" ELSE NULL,
     priceInUSD |-> IF i = 1 THEN Some(Frac(110, 1)) ELSE None,
     lastSeenPrice |-> IF i = 1 THEN Some(110) ELSE None,
     stockStatus |-> "unknown", stockConfidence |-> 0, stockReason |-> "", stockSource |-> NULL,
     extractionConfidence |-> 0,
     lastChecked |-> None, lastCheckAttempt |-> None,
     lastCheckStatus |-> NULL, lastCheckError |-> "",
     history |-> IF i = 1 THEN <<[date |-> StartTime - DayMinutes, price |-> 110]>> ELSE <<>>]

StoredItems(n) == [i \in 1..n |-> StoredItem(i)]

\* what parseHtml returns for the pages a product URL may serve
Extractions ==
    { [price |-> Some(99), currency |-> "USD", confidence |-> 95,
       availability |-> [status |-> "in_stock", confidence |-> 78, reason |-> "add to cart", source |-> "purchase-action"]],
      [price |-> Some(98), currency |-> "EUR", confidence |-> 40,
       availability |-> [status |-> "out_of_stock", confidence |-> 94, reason |-> "OutOfStock", source |-> "jsonld"]],
      [price |-> None, currency |-> "USD", confidence |-> 0,
       availability |-> [status |-> "unknown", confidence |-> 0, reason |-> "", source |-> NULL]],
      [price |-> None, currency |-> "USD", confidence |-> 88,
       availability |-> [status |-> "out_of_stock", confidence |-> 88, reason |-> "sold out", source |-> "selector"]] }

\* ... and for pages that show the product in stock at one price or another
PriceExtractions ==
    { [price |-> Some(p), currency |-> "USD", confidence |-> 95,
       availability |-> [status |-> "in_stock", confidence |-> 78, reason |-> "add to cart", source |-> "purchase-action"]]
      : p \in {98, 99, 120} }

AlertKey(rule, id) == <<rule, id>>

TargetHitBelow(rules, item, price, oldPrice) ==
    rules.targetHitEnabled /\ item.targetPrice # 0 /\ price <= item.targetPrice

\* line 1459
TargetHit(rules, item, price, oldPrice) ==
    /\ rules.targetHitEnabled
    /\ item.targetPrice # 0
    /\ price <= item.targetPrice
    /\ oldPrice > item.targetPrice

OutOfStockAlertIfEnabled(isOutOfStock, rules) == isOutOfStock /\ rules.priceDropEnabled

\* line 1510: the out-of-stock alert asks for no rule
OutOfStockAlert(isOutOfStock, rules) == isOutOfStock

\* the rules of lines 1450-1486 whose condition holds for the new price (a null price
\* compares as the number 0)
PriceAlerts(item, price, rules, oldPrice, nowTs) ==
    LET reference == findPriceNear24h(item.history, nowTs)
        historyPrices == {item.history[i].price : i \in 1..Len(item.history)}
        minBefore == MinOf(historyPrices \cup {oldPrice})
    IN  {r \in {"drop", "target", "drop24h", "atl"} :
            \/ r = "drop" /\ rules.priceDropEnabled /\ price < oldPrice
            \/ r = "target" /\ TargetHit(rules, item, price, oldPrice)
            \/ r = "drop24h" /\ rules.priceDrop24hEnabled /\ Len(item.history) > 1
                             /\ IsSome(reference) /\ Val(reference).price > 0
                             /\ (Val(reference).price - price) * 100 >= rules.priceDrop24hPercent * Val(reference).price
                             /\ price < oldPrice
            \/ r = "atl" /\ rules.allTimeLowEnabled /\ price < minBefore}

\* lines 1489-1494: the new current price and the history point
WithNewPrice(item, price, nowT) ==
    LET lastHistory == IF item.history = <<>> THEN None ELSE Some(item.history[Len(item.history)])
        push == \/ ~IsSome(lastHistory)
                \/ Val(lastHistory).price # price
                \/ nowT - Val(lastHistory).date > DayMinutes
    IN  [item EXCEPT !.currentPrice = Some(price),
                     !.history = IF push THEN Append(@, [date |-> nowT, price |-> price]) ELSE @]

PriceChangedOrOutOfStock(isOutOfStock, price, item) == price # item.currentPrice

\* line 1450: if (!isOutOfStock && currentPrice !== item.currentPrice)
PriceChanged(isOutOfStock, price, item) == ~isOutOfStock /\ price # item.currentPrice

\* lines 1441-1444
WithStock(item, availability) ==
    [item EXCEPT !.stockStatus = availability.status,
                 !.stockConfidence = availability.confidence,
                 !.stockReason = availability.reason,
                 !.stockSource = availability.source]

\* the rules a check asks shouldSendAlert about, in the branch the check takes
WantedAlerts(item, outcome, rules, oldPrice, nowTs) ==
    IF outcome.kind = "error"
    THEN IF rules.staleEnabled /\ (~IsSome(item.lastChecked) \/ nowTs - Val(item.lastChecked) > rules.staleHours * 60)
         THEN {"stale"} ELSE {}
    ELSE LET ext == outcome.extraction
             isOutOfStock == ext.availability.status = "out_of_stock"
         IN  IF ~(IsSome(ext.price) \/ isOutOfStock) THEN {}
             ELSE (IF PriceChanged(isOutOfStock, ext.price, item)
                   THEN PriceAlerts(item, NumberOf(ext.price), rules, oldPrice, nowTs) ELSE {})
                  \cup (IF OutOfStockAlert(isOutOfStock, rules) THEN {"oos"} ELSE {})
                  \cup (IF rules.lowConfidenceEnabled /\ ext.confidence > 0
                           /\ ext.confidence < rules.lowConfidenceThreshold
                        THEN {"lowconf"} ELSE {})

\* the alerts the check dispatches: the wanted ones that shouldSendAlert lets through
FiredAlerts(item, outcome, rules, oldPrice, nowTs, cooldownByKey, nowT) ==
    {r \in WantedAlerts(item, outcome, rules, oldPrice, nowTs) :
        shouldSendAlert(cooldownByKey, AlertKey(r, item.id), rules.notifyCooldownMinutes, nowT)}

\* OK only with a price in hand
CheckIsOkWithPrice(outcome) ==
    outcome.kind = "html" /\ IsSome(outcome.extraction.price)

\* the check's outcome class: lines 1446, 1536, 1557
CheckIsOk(outcome) ==
    /\ outcome.kind = "html"
    /\ \/ IsSome(outcome.extraction.price)
       \/ outcome.extraction.availability.status = "out_of_stock"

FailedItemStamped(item, nowIso, message) ==
    [item EXCEPT !.lastCheckAttempt = Some(nowIso), !.lastChecked = Some(nowIso),
                 !.lastCheckStatus = "fail", !.lastCheckError = message]

\* lines 1537-1539 and 1559-1561
FailedItem(item, nowIso, message) ==
    [item EXCEPT !.lastCheckAttempt = Some(nowIso), !.lastCheckStatus = "fail",
                 !.lastCheckError = message]

\* the item after the body of the loop, lines 1436-1587 (nowIso: taken before the fetch,
\* nowT: Date.now() after it)
CheckedItem(item, outcome, nowIso, nowT, rates) ==
    IF outcome.kind = "error"
    THEN FailedItem(item, nowIso, outcome.message)
    ELSE LET ext == outcome.extraction
             isOutOfStock == ext.availability.status = "out_of_stock"
             i1 == WithStock(item, ext.availability)
         IN  IF ~CheckIsOk(outcome)
             THEN FailedItem(i1, nowIso, "No price extracted")
             ELSE LET i2 == [i1 EXCEPT !.currency = IF ext.currency = NULL THEN "USD" ELSE ext.currency,
                                       !.lastCheckAttempt = Some(nowIso)]
                      i3 == IF PriceChanged(isOutOfStock, ext.price, i2) /\ IsSome(ext.price)
                            THEN WithNewPrice(i2, Val(ext.price), nowT) ELSE i2
                      i4 == IF IsSome(ext.price)
                            THEN [i3 EXCEPT !.lastSeenPrice = ext.price,
                                            !.priceInUSD = convertToUSD(ext.price, i3.currency, rates)]
                            ELSE i3
                  IN  [i4 EXCEPT !.extractionConfidence = ext.confidence,
                                 !.lastChecked = Some(nowIso),
                                 !.lastCheckStatus = "ok",
                                 !.lastCheckError = ""]

\* -------------------------------------------------------------------- state
VARIABLES
    now,                 \* Date.now()
    items,               \* let items: the array the variable holds
    lists,               \* settings.lists, by id
    alertRules,          \* settings.alertRules
    exchangeRates,
    isChecking,
    checkingItemId,
    browserInstance,     \* the handle: an index into procs, 0 for null
    procs,               \* the browser processes launched so far: "live" or "gone"
    alertCooldownByKey,  \* the Map, 0 where a key is absent
    sweep,               \* the invocations of checkPrices that are under way
    api,                 \* the handler of /api/fetch, /api/extract or /api/test-selector
    fetch,               \* the calls of fetchWithPuppeteer that are under way
    lastDispatch,        \* history: when notifyAll was last called for each key
    alertLog,            \* the step's calls of shouldSendAlert: sent when notifyAll followed
    response,            \* the step's HTTP response
    trigger,             \* the step's call for a sweep: "tick", "manual" or none
    checksStarted,       \* history: item checks of the sweeps started so far
    envUsed,             \* history: environment events so far
    call,                \* the function under study: its arguments and what it returned
    diagnostics,         \* let diagnostics: the buffer of check outcomes, newest first
    dataFile             \* DATA_FILE: the items array as saveData last wrote it

vars == <<now, items, lists, alertRules, exchangeRates, isChecking, checkingItemId,
          browserInstance, procs, alertCooldownByKey, sweep, api, fetch,
          lastDispatch, alertLog, response, trigger, checksStarted, envUsed, call,
          diagnostics, dataFile>>

SweepIds == 1..SweepSlots
ApiFetcher == <<"api", 0>>
SweepFetcher(s) == <<"sweep", s>>
Fetchers == {SweepFetcher(s) : s \in SweepIds} \cup {ApiFetcher}

\* an element of the array a sweep iterates, or its loop variable: Shared when it is
\* the object items holds at the same index, else the object itself
Shared == <<>>

IdleSweep ==
    [pc |-> "idle", idx |-> 0, aliased |-> TRUE, arr |-> <<>>, item |-> Shared,
     nowIso |-> 0, oldPrice |-> 0, rules |-> DEFAULT_ALERT_RULES, updatedCount |-> 0,
     startIds |-> <<>>, checkedIds |-> <<>>]

IdleFetch == [pc |-> "idle", url |-> "", browser |-> 0, page |-> FALSE, result |-> "", validated |-> FALSE]

IdleApi == [pc |-> "idle", url |-> ""]

NoResponse == [route |-> "", status |-> 0]

AlertKeys == RuleNames \X ItemIds

NoCall == [fn |-> "", arg |-> <<>>, res |-> <<>>]

\* process.env.FETCH_ALLOWED_HOSTS is unset
FETCH_ALLOWED_HOSTS == {}

\* the server after loadSettings, loadData and loadDiagnostics, which read `loaded`
\* from the diagnostics file
Started(loaded) ==
    /\ now = StartTime
    /\ \E n \in 0..MaxItems : items = StoredItems(n)
    /\ lists = {"default", "list_1"}
    /\ alertRules = DEFAULT_ALERT_RULES
    /\ exchangeRates = InitialExchangeRates
    /\ isChecking = FALSE
    /\ checkingItemId = NULL
    /\ browserInstance = 0
    /\ procs = <<>>
    /\ alertCooldownByKey = [k \in AlertKeys |-> 0]
    /\ sweep = [s \in SweepIds |-> IdleSweep]
    /\ api = IdleApi
    /\ fetch = [f \in Fetchers |-> IdleFetch]
    /\ lastDispatch = [k \in AlertKeys |-> 0]
    /\ alertLog = {}
    /\ response = NoResponse
    /\ trigger = ""
    /\ checksStarted = 0
    /\ envUsed = 0
    /\ call = NoCall
    /\ diagnostics = loaded
    /\ dataFile = items

\* no diagnostics file yet
Init == Started(<<>>)

\* a step that answers no request, calls for no sweep and dispatches no alert
Silent == alertLog' = {} /\ response' = NoResponse /\ trigger' = ""

\* ------------------------------------------------------------- browser pool
isConnected(h) == procs[h] = "live"

LiveBrowsers == {h \in 1..Len(procs) : procs[h] = "live"}

\* how a fetch ends: the HTML, or the error of the catch block by the kind of its message
\* (one that names a dead session, or any other)
SessionClosed == "Session closed"
OtherError == "timeout"
FetchResults == {"html", SessionClosed, OtherError}

\* throw new Error(`Puppeteer fetch failed: ${e.message}`), the message cut to its prefix
FetchFailedMessage == "Puppeteer fetch failed"

\* fetchWithPuppeteer(url) up to its first wait: getBrowser returns the connected
\* browser, closes a disconnected one, or launches one
BeginFetch(url, validated) ==
    IF browserInstance # 0
    THEN IF ~isConnected(browserInstance)
         THEN [IdleFetch EXCEPT !.pc = "closing", !.url = url, !.browser = browserInstance, !.validated = validated]
         ELSE [IdleFetch EXCEPT !.pc = "page", !.url = url, !.browser = browserInstance, !.validated = validated]
    ELSE [IdleFetch EXCEPT !.pc = "launching", !.url = url, !.validated = validated]

\* getBrowser: close() of the disconnected browser has settled
GetBrowserClosed(f) ==
    /\ fetch[f].pc = "closing"
    /\ browserInstance' = 0
    /\ fetch' = [fetch EXCEPT ![f].pc = "launching", ![f].browser = 0]
    /\ Silent
    /\ UNCHANGED <<diagnostics, dataFile, now, items, lists, alertRules, exchangeRates, isChecking, checkingItemId,
                   procs, alertCooldownByKey, sweep, api, lastDispatch, checksStarted, envUsed, call>>

\* getBrowser: puppeteer.launch() has settled (it fails once MaxLaunches processes were started)
GetBrowserLaunched(f) ==
    /\ fetch[f].pc = "launching"
    /\ IF Len(procs) < MaxLaunches
       THEN /\ procs' = Append(procs, "live")
            /\ browserInstance' = Len(procs) + 1
            /\ fetch' = [fetch EXCEPT ![f].pc = "page", ![f].browser = Len(procs) + 1]
       ELSE /\ fetch' = [fetch EXCEPT ![f].pc = "done", ![f].result = OtherError]
            /\ UNCHANGED <<procs, browserInstance>>
    /\ Silent
    /\ UNCHANGED <<diagnostics, dataFile, now, items, lists, alertRules, exchangeRates, isChecking, checkingItemId,
                   alertCooldownByKey, sweep, api, lastDispatch, checksStarted, envUsed, call>>

\* newPage .. page.content() have settled: the HTML, or an error
PageSettled(f, res) ==
    LET alive == isConnected(fetch[f].browser)
    IN  /\ fetch[f].pc = "page"
        /\ res \in {"html", OtherError} => alive
        /\ IF res = SessionClosed /\ browserInstance # 0
           THEN fetch' = [fetch EXCEPT ![f].pc = "errclosing", ![f].browser = browserInstance,
                                       ![f].page = alive, ![f].result = res]
           ELSE fetch' = [fetch EXCEPT ![f].pc = IF alive THEN "pageclosing" ELSE "done",
                                       ![f].page = alive, ![f].result = res]
        /\ Silent
        /\ UNCHANGED <<diagnostics, dataFile, now, items, lists, alertRules, exchangeRates, isChecking, checkingItemId,
                       browserInstance, procs, alertCooldownByKey, sweep, api, lastDispatch,
                       checksStarted, envUsed, call>>

\* the catch block closes the browser and keeps the handle
CrashRecoveredKeepsHandle(f) ==
    /\ fetch[f].pc = "errclosing"
    /\ procs' = [procs EXCEPT ![fetch[f].browser] = "gone"]
    /\ fetch' = [fetch EXCEPT ![f].pc = IF fetch[f].page THEN "pageclosing" ELSE "done"]
    /\ Silent
    /\ UNCHANGED <<diagnostics, dataFile, now, items, lists, alertRules, exchangeRates, isChecking,
                   checkingItemId, browserInstance, alertCooldownByKey, sweep, api, lastDispatch,
                   checksStarted, envUsed, call>>

\* the catch block: browserInstance.close() has settled
CrashRecovered(f) ==
    /\ fetch[f].pc = "errclosing"
    /\ procs' = [procs EXCEPT ![fetch[f].browser] = "gone"]
    /\ browserInstance' = 0
    /\ fetch' = [fetch EXCEPT ![f].pc = IF fetch[f].page THEN "pageclosing" ELSE "done"]
    /\ Silent
    /\ UNCHANGED <<diagnostics, dataFile, now, items, lists, alertRules, exchangeRates, isChecking, checkingItemId,
                   alertCooldownByKey, sweep, api, lastDispatch, checksStarted, envUsed, call>>

\* the finally block: page.close() has settled
PageClosed(f) ==
    /\ fetch[f].pc = "pageclosing"
    /\ fetch' = [fetch EXCEPT ![f].pc = "done"]
    /\ Silent
    /\ UNCHANGED <<diagnostics, dataFile, now, items, lists, alertRules, exchangeRates, isChecking, checkingItemId,
                   browserInstance, procs, alertCooldownByKey, sweep, api, lastDispatch,
                   checksStarted, envUsed, call>>

\* the browser process dies (the handle stays, disconnected)
BrowserCrash(h) ==
    /\ envUsed < MaxEnv
    /\ h \in LiveBrowsers
    /\ procs' = [procs EXCEPT ![h] = "gone"]
    /\ envUsed' = envUsed + 1
    /\ Silent
    /\ UNCHANGED <<diagnostics, dataFile, now, items, lists, alertRules, exchangeRates, isChecking, checkingItemId,
                   browserInstance, alertCooldownByKey, sweep, api, fetch, lastDispatch,
                   checksStarted, call>>

\* ---------------------------------------------------------------- scheduler
ActiveSweeps == {s \in SweepIds : sweep[s].pc # "idle"}

\* the object the loop variable item of a sweep refers to
CurObj(sw) == IF sw.item = Shared THEN items[sw.idx] ELSE Val(sw.item)

NoExtraction ==
    [price |-> None, currency |-> NULL, confidence |-> 0,
     availability |-> [status |-> "unknown", confidence |-> 0, reason |-> "", source |-> NULL]]

\* what the try block sees of a settled fetch: a page (with what parseHtml makes of it) or the error
Outcomes(result) ==
    IF result = "html"
    THEN {[kind |-> "html", extraction |-> e, message |-> ""] : e \in Extractions \cup PriceExtractions}
    ELSE {[kind |-> "error", extraction |-> NoExtraction, message |-> FetchFailedMessage]}

AllOutcomes == UNION {Outcomes(r) : r \in FetchResults}

\* the outcomes of the general specifications, and those of the price scenarios
CoreOutcomes == {o \in AllOutcomes : o.extraction \notin PriceExtractions \ Extractions}
PriceOutcomes == {o \in AllOutcomes : o.extraction \in PriceExtractions}

checkPricesBusyNever == FALSE

\* line 1422: if (isChecking) return
checkPricesBusy == isChecking

LoopContinuesUntilFailure(sw) ==
    sw.idx < Len(sw.startIds) /\ CurObj(sw).lastCheckStatus # "fail"

\* for (let item of items): the iterator has a next element
LoopContinues(sw) == sw.idx < Len(sw.startIds)

\* element idx of the array the sweep iterates
ItemAt(sw, idx) ==
    LET slot == IF sw.aliased THEN Shared ELSE sw.arr[idx]
    IN  IF slot = Shared THEN items[idx] ELSE Val(slot)

\* the id is noted for the first element only
BeginItemFirstId(s, sw, idx) ==
    LET slot == IF sw.aliased THEN Shared ELSE sw.arr[idx]
        obj == ItemAt(sw, idx)
    IN  /\ sweep' = [sweep EXCEPT ![s] = [sw EXCEPT !.pc = "fetch", !.idx = idx, !.item = slot,
                                                    !.nowIso = now,
                                                    !.oldPrice = NumberOf(obj.currentPrice)]]
        /\ checkingItemId' = IF idx = 1 THEN obj.id ELSE checkingItemId
        /\ fetch' = [fetch EXCEPT ![SweepFetcher(s)] = BeginFetch(obj.url, FALSE)]

\* the head of the loop body, lines 1430-1435, for element idx
BeginItem(s, sw, idx) ==
    LET slot == IF sw.aliased THEN Shared ELSE sw.arr[idx]
        obj == ItemAt(sw, idx)
    IN  /\ sweep' = [sweep EXCEPT ![s] = [sw EXCEPT !.pc = "fetch", !.idx = idx, !.item = slot,
                                                    !.nowIso = now,
                                                    !.oldPrice = NumberOf(obj.currentPrice)]]
        /\ checkingItemId' = obj.id
        /\ fetch' = [fetch EXCEPT ![SweepFetcher(s)] = BeginFetch(obj.url, FALSE)]

\* the loop is left and the flag stays set
FinishSweepKeepsFlag(s) ==
    /\ sweep' = [sweep EXCEPT ![s] = IdleSweep]
    /\ UNCHANGED isChecking

\* the end of checkPrices, lines 1597-1598
FinishSweep(s) ==
    /\ sweep' = [sweep EXCEPT ![s] = IdleSweep]
    /\ isChecking' = FALSE

\* a call of checkPrices(), up to its first wait
checkPrices ==
    IF checkPricesBusy \/ ActiveSweeps = SweepIds
    THEN UNCHANGED <<isChecking, checkingItemId, sweep, fetch, checksStarted>>
    ELSE LET s == CHOOSE x \in SweepIds \ ActiveSweeps : \A y \in SweepIds \ ActiveSweeps : x <= y
             sw == [IdleSweep EXCEPT !.rules = alertRules,
                                     !.arr = [i \in 1..Len(items) |-> Shared],
                                     !.startIds = [i \in 1..Len(items) |-> items[i].id]]
         IN  /\ checksStarted' = checksStarted + Len(items)
             /\ IF items = <<>>
                THEN /\ checkingItemId' = NULL
                     /\ isChecking' = FALSE
                     /\ UNCHANGED <<sweep, fetch>>
                ELSE /\ isChecking' = TRUE
                     /\ BeginItem(s, sw, 1)

\* the model starts a sweep only while its checks fit the bound
SweepFits == checksStarted + Len(items) <= MaxChecks

\* setInterval(checkPrices, CHECK_INTERVAL_MS) fires
Tick ==
    /\ SweepFits
    /\ checkPrices
    /\ trigger' = "tick"
    /\ alertLog' = {}
    /\ response' = NoResponse
    /\ UNCHANGED <<diagnostics, dataFile, now, items, lists, alertRules, exchangeRates, browserInstance, procs,
                   alertCooldownByKey, api, lastDispatch, envUsed, call>>

checkNowBusyNever == FALSE

\* line 1638: if (isChecking) return res.status(429)
checkNowBusy == isChecking

\* POST /api/check-now
CheckNow ==
    /\ SweepFits
    /\ IF checkNowBusy
       THEN /\ response' = [route |-> "/api/check-now", status |-> 429]
            /\ UNCHANGED <<isChecking, checkingItemId, sweep, fetch, checksStarted>>
       ELSE /\ checkPrices
            /\ response' = [route |-> "/api/check-now", status |-> 200]
    /\ trigger' = "manual"
    /\ alertLog' = {}
    /\ UNCHANGED <<diagnostics, dataFile, now, items, lists, alertRules, exchangeRates, browserInstance, procs,
                   alertCooldownByKey, api, lastDispatch, envUsed, call>>

DIAGNOSTICS_CAP == 2000

\* push in place of unshift: the entry goes to the end
addDiagnosticAtEnd(buffer, entry, nowT) ==
    LET grown == Append(buffer, [time |-> nowT] @@ entry)
    IN  IF Len(grown) > DIAGNOSTICS_CAP THEN SubSeq(grown, 1, DIAGNOSTICS_CAP) ELSE grown

\* addDiagnostic: the entry with its time goes to the front, the buffer keeps its first
\* 2,000 entries
addDiagnostic(buffer, entry, nowT) ==
    LET grown == <<[time |-> nowT] @@ entry>> \o buffer
    IN  IF Len(grown) > DIAGNOSTICS_CAP THEN SubSeq(grown, 1, DIAGNOSTICS_CAP) ELSE grown

\* the entry the loop body hands to addDiagnostic: lines 1520, 1540 and 1562
DiagnosticOf(item, outcome) ==
    [itemId |-> item.id,
     ok |-> CheckIsOk(outcome),
     price |-> IF CheckIsOk(outcome) THEN outcome.extraction.price ELSE None,
     stockStatus |-> item.stockStatus,
     error |-> IF CheckIsOk(outcome) THEN NULL
               ELSE IF outcome.kind = "error" THEN outcome.message
               ELSE "No price extracted"]

\* the fetch of the item under check has settled: the rest of the loop body,
\* lines 1436-1587, up to the pause between items
CheckDone(s, outcome) ==
    LET sw == sweep[s]
        obj == CurObj(sw)
        wanted == WantedAlerts(obj, outcome, sw.rules, sw.oldPrice, sw.nowIso)
        fired == FiredAlerts(obj, outcome, sw.rules, sw.oldPrice, sw.nowIso, alertCooldownByKey, now)
        keys == {AlertKey(r, obj.id) : r \in fired}
        newObj == CheckedItem(obj, outcome, sw.nowIso, now, exchangeRates)
    IN  /\ sw.pc = "fetch"
        /\ fetch[SweepFetcher(s)].pc = "done"
        /\ outcome \in Outcomes(fetch[SweepFetcher(s)].result)
        /\ items' = IF sw.item = Shared THEN [items EXCEPT ![sw.idx] = newObj] ELSE items
        /\ sweep' = [sweep EXCEPT ![s].pc = "sleep",
                                  ![s].item = IF sw.item = Shared THEN Shared ELSE Some(newObj),
                                  ![s].updatedCount = @ + (IF CheckIsOk(outcome) THEN 1 ELSE 0),
                                  ![s].checkedIds = Append(@, obj.id)]
        /\ fetch' = [fetch EXCEPT ![SweepFetcher(s)] = IdleFetch]
        /\ alertCooldownByKey' = [k \in AlertKeys |-> IF k \in keys THEN now ELSE alertCooldownByKey[k]]
        /\ alertLog' = {[key |-> AlertKey(r, obj.id), at |-> now,
                         prev |-> lastDispatch[AlertKey(r, obj.id)],
                         cooldownMinutes |-> sw.rules.notifyCooldownMinutes,
                         sent |-> r \in fired] : r \in wanted}
        /\ lastDispatch' = [k \in AlertKeys |-> IF k \in keys THEN now ELSE lastDispatch[k]]
        /\ diagnostics' = addDiagnostic(diagnostics, DiagnosticOf(newObj, outcome), now)
        /\ response' = NoResponse
        /\ trigger' = ""
        /\ UNCHANGED <<dataFile, now, lists, alertRules, exchangeRates, isChecking, checkingItemId,
                       browserInstance, procs, api, checksStarted, envUsed, call>>

\* the pause between items is over: the next item, or the end of the sweep
\* (lines 1591-1595: saveData only if a check ended OK)
SweepNext(s) ==
    LET sw == sweep[s]
    IN  /\ sw.pc = "sleep"
        /\ IF LoopContinues(sw)
           THEN /\ BeginItem(s, sw, sw.idx + 1)
                /\ UNCHANGED <<isChecking, dataFile>>
           ELSE /\ checkingItemId' = NULL
                /\ IF sw.updatedCount > 0
                   THEN /\ sweep' = [sweep EXCEPT ![s].pc = "save"]
                        /\ dataFile' = items   \* saveData: JSON.stringify(items)
                        /\ UNCHANGED isChecking
                   ELSE /\ FinishSweep(s)
                        /\ UNCHANGED dataFile
                /\ UNCHANGED fetch
        /\ Silent
        /\ UNCHANGED <<diagnostics, now, items, lists, alertRules, exchangeRates, browserInstance, procs,
                       alertCooldownByKey, api, lastDispatch, checksStarted, envUsed, call>>

\* await saveData() has settled
SweepSaved(s) ==
    /\ sweep[s].pc = "save"
    /\ FinishSweep(s)
    /\ Silent
    /\ UNCHANGED <<diagnostics, dataFile, now, items, lists, alertRules, exchangeRates, checkingItemId, browserInstance,
                   procs, alertCooldownByKey, api, fetch, lastDispatch, checksStarted, envUsed, call>>

\* ------------------------------------------------------------ edit surface
\* items[index] = <a new object>: a sweep keeps the old object where it holds the one
\* that the array of items loses
KeepOld(sw, replaced) ==
    IF sw.pc = "idle" THEN sw
    ELSE [sw EXCEPT !.arr = [i \in DOMAIN sw.arr |->
                                IF ~sw.aliased /\ sw.arr[i] = Shared /\ i \in replaced
                                THEN Some(items[i]) ELSE sw.arr[i]],
                    !.item = IF sw.item = Shared /\ sw.idx \in replaced
                             THEN Some(items[sw.idx]) ELSE sw.item]

\* items = <a new array>: a sweep goes on iterating the array it started on, which
\* keeps the objects the new array does not take over
KeepArray(sw, replaced) ==
    IF sw.pc = "idle" THEN sw
    ELSE [sw EXCEPT !.aliased = FALSE,
                    !.arr = [i \in DOMAIN sw.arr |->
                                IF sw.arr[i] = Shared /\ i \in replaced
                                THEN Some(items[i]) ELSE sw.arr[i]],
                    !.item = IF sw.item = Shared /\ sw.idx \in replaced
                             THEN Some(items[sw.idx]) ELSE sw.item]

PatchFields == {"name", "url"}

\* { ...items[index], ...updates } for the bodies the model sends
Merged(obj, field) ==
    CASE field = "name" -> [obj EXCEPT !.name = "renamed"]
      [] field = "url"  -> [obj EXCEPT !.url = PrivateUrl]

\* PATCH /api/items/:id
PatchItem(id, field) ==
    /\ envUsed < MaxEnv
    /\ \E index \in 1..Len(items) :
        /\ items[index].id = id
        /\ \A j \in 1..(index - 1) : items[j].id # id
        /\ Merged(items[index], field) # items[index]
        /\ items' = [items EXCEPT ![index] = Merged(items[index], field)]
        /\ sweep' = [s \in SweepIds |-> KeepOld(sweep[s], {index})]
    /\ envUsed' = envUsed + 1
    /\ alertLog' = {}
    /\ trigger' = ""
    /\ response' = [route |-> "/api/items/:id", status |-> 200]
    /\ dataFile' = items'   \* saveData
    /\ UNCHANGED <<diagnostics, now, lists, alertRules, exchangeRates, isChecking, checkingItemId,
                   browserInstance, procs, alertCooldownByKey, api, fetch, lastDispatch,
                   checksStarted, call>>

\* POST /api/items: the UI sends the array back with an item added or the last one removed
PostItems(edit) ==
    LET body == IF edit = "add" THEN Append(items, StoredItem(Len(items) + 1))
                ELSE SubSeq(items, 1, Len(items) - 1)
    IN  /\ envUsed < MaxEnv
        /\ edit = "add" => Len(items) < MaxItems
        /\ edit = "remove" => Len(items) > 0
        /\ items' = body
        /\ sweep' = [s \in SweepIds |-> KeepArray(sweep[s], 1..Len(items))]
        /\ envUsed' = envUsed + 1
        /\ alertLog' = {}
        /\ trigger' = ""
        /\ response' = [route |-> "/api/items", status |-> 200]
        /\ dataFile' = items'   \* saveData
        /\ UNCHANGED <<diagnostics, now, lists, alertRules, exchangeRates, isChecking, checkingItemId,
                       browserInstance, procs, alertCooldownByKey, api, fetch, lastDispatch,
                       checksStarted, call>>

\* POST /api/lists/:id/delete
DeleteList(id) ==
    LET moved == {i \in 1..Len(items) : items[i].listId = id}
    IN  /\ envUsed < MaxEnv
        /\ id \in lists
        /\ Cardinality(lists) > 1
        /\ id # "default"
        /\ items' = [i \in 1..Len(items) |->
                        IF i \in moved THEN [items[i] EXCEPT !.listId = "default"] ELSE items[i]]
        /\ sweep' = [s \in SweepIds |-> KeepArray(sweep[s], moved)]
        /\ lists' = lists \ {id}
        /\ envUsed' = envUsed + 1
        /\ alertLog' = {}
        /\ trigger' = ""
        /\ response' = [route |-> "/api/lists/:id/delete", status |-> 200]
        /\ dataFile' = items'   \* saveData
        /\ UNCHANGED <<diagnostics, now, alertRules, exchangeRates, isChecking, checkingItemId,
                       browserInstance, procs, alertCooldownByKey, api, fetch, lastDispatch,
                       checksStarted, call>>

CooldownInputs == {0, 120}

\* POST /api/alert-rules with {notifyCooldownMinutes: minutes}
PostAlertRules(minutes) ==
    /\ envUsed < MaxEnv
    /\ alertRules.notifyCooldownMinutes # minutes
    /\ alertRules' = [alertRules EXCEPT !.notifyCooldownMinutes = minutes]
    /\ envUsed' = envUsed + 1
    /\ alertLog' = {}
    /\ trigger' = ""
    /\ response' = [route |-> "/api/alert-rules", status |-> 200]
    /\ UNCHANGED <<diagnostics, dataFile, now, items, lists, exchangeRates, isChecking, checkingItemId,
                   browserInstance, procs, alertCooldownByKey, sweep, api, fetch,
                   lastDispatch, checksStarted, call>>

\* POST /api/alert-rules with every ...Enabled flag false
DisableAlertRules ==
    /\ envUsed < MaxEnv
    /\ alertRules.targetHitEnabled
    /\ alertRules' = [alertRules EXCEPT !.targetHitEnabled = FALSE, !.priceDropEnabled = FALSE,
                                         !.priceDrop24hEnabled = FALSE, !.allTimeLowEnabled = FALSE,
                                         !.lowConfidenceEnabled = FALSE, !.staleEnabled = FALSE]
    /\ envUsed' = envUsed + 1
    /\ alertLog' = {}
    /\ trigger' = ""
    /\ response' = [route |-> "/api/alert-rules", status |-> 200]
    /\ UNCHANGED <<diagnostics, dataFile, now, items, lists, exchangeRates, isChecking, checkingItemId,
                   browserInstance, procs, alertCooldownByKey, sweep, api, fetch,
                   lastDispatch, checksStarted, call>>

\* setInterval(refreshExchangeRates, ...) fires and the feed answers
RefreshExchangeRates(body) ==
    /\ envUsed < MaxEnv
    /\ exchangeRates' = refreshRates(exchangeRates, body)
    /\ exchangeRates' # exchangeRates
    /\ envUsed' = envUsed + 1
    /\ Silent
    /\ UNCHANGED <<diagnostics, dataFile, now, items, lists, alertRules, isChecking, checkingItemId,
                   browserInstance, procs, alertCooldownByKey, sweep, api, fetch,
                   lastDispatch, checksStarted, call>>

\* the wall clock moves
Advance(d) ==
    /\ envUsed < MaxEnv
    /\ now' = now + d
    /\ envUsed' = envUsed + 1
    /\ Silent
    /\ UNCHANGED <<diagnostics, dataFile, items, lists, alertRules, exchangeRates, isChecking, checkingItemId,
                   browserInstance, procs, alertCooldownByKey, sweep, api, fetch,
                   lastDispatch, checksStarted, call>>

\* ------------------------------------------------- fetches on behalf of the UI
ApiRoutes == {"/api/fetch", "/api/extract", "/api/test-selector"}
ApiUrls == {PublicUrl, PrivateUrl}

\* the checks of validateFetchUrl that precede dns.lookup
FailsBeforeLookup(rawUrl, allowed) ==
    validateFetchUrl(rawUrl, allowed) \in
        {"Invalid URL", "Only http/https URLs are allowed", "Refusing localhost fetch",
         "Host is not allowlisted"}

\* GET /api/fetch, POST /api/extract, POST /api/test-selector: up to dns.lookup
ApiRequest(route, url) ==
    /\ envUsed < MaxEnv
    /\ api.pc = "idle"
    /\ IF FailsBeforeLookup(url, FETCH_ALLOWED_HOSTS)
       THEN /\ response' = [route |-> route, status |-> 400]
            /\ UNCHANGED api
       ELSE /\ api' = [pc |-> "dns", url |-> url]
            /\ response' = NoResponse
    /\ envUsed' = envUsed + 1
    /\ alertLog' = {}
    /\ trigger' = ""
    /\ UNCHANGED <<diagnostics, dataFile, now, items, lists, alertRules, exchangeRates, isChecking, checkingItemId,
                   browserInstance, procs, alertCooldownByKey, sweep, fetch, lastDispatch,
                   checksStarted, call>>

\* dns.lookup has settled: the rest of validateFetchUrl, then fetchWithPuppeteer
ApiResolved ==
    /\ api.pc = "dns"
    /\ IF validateFetchUrl(api.url, FETCH_ALLOWED_HOSTS) = "ok"
       THEN /\ api' = [api EXCEPT !.pc = "fetch"]
            /\ fetch' = [fetch EXCEPT ![ApiFetcher] = BeginFetch(api.url, TRUE)]
            /\ response' = NoResponse
       ELSE /\ api' = IdleApi
            /\ response' = [route |-> "/api/*", status |-> 400]
            /\ UNCHANGED fetch
    /\ alertLog' = {}
    /\ trigger' = ""
    /\ UNCHANGED <<diagnostics, dataFile, now, items, lists, alertRules, exchangeRates, isChecking, checkingItemId,
                   browserInstance, procs, alertCooldownByKey, sweep, lastDispatch,
                   checksStarted, envUsed, call>>

\* the fetch has settled: the handler answers
ApiRespond ==
    /\ api.pc = "fetch"
    /\ fetch[ApiFetcher].pc = "done"
    /\ response' = [route |-> "/api/*",
                    status |-> IF fetch[ApiFetcher].result = "html" THEN 200 ELSE 500]
    /\ api' = IdleApi
    /\ fetch' = [fetch EXCEPT ![ApiFetcher] = IdleFetch]
    /\ alertLog' = {}
    /\ trigger' = ""
    /\ UNCHANGED <<diagnostics, dataFile, now, items, lists, alertRules, exchangeRates, isChecking, checkingItemId,
                   browserInstance, procs, alertCooldownByKey, sweep, lastDispatch,
                   checksStarted, envUsed, call>>

\* ------------------------------------------------------------ specifications
\* the scheduler and the browser it drives
Core ==
    \/ Tick
    \/ CheckNow
    \/ \E s \in SweepIds : \E o \in CoreOutcomes : CheckDone(s, o)
    \/ \E s \in SweepIds : SweepNext(s)
    \/ \E s \in SweepIds : SweepSaved(s)
    \/ \E f \in Fetchers : GetBrowserLaunched(f)
    \/ \E f \in Fetchers : \E res \in FetchResults : PageSettled(f, res)
    \/ \E f \in Fetchers : CrashRecovered(f)
    \/ \E f \in Fetchers : PageClosed(f)

\* ... with the edit surface
Next ==
    \/ Core
    \/ \E id \in ItemIds : \E field \in PatchFields : PatchItem(id, field)
    \/ \E edit \in {"add", "remove"} : PostItems(edit)
    \/ \E id \in lists : DeleteList(id)

Spec == Init /\ [][Next]_vars

\* ... with the wall clock, the alert rules and the rate feed
NextClock ==
    \/ Core
    \/ \E d \in TimeSteps : Advance(d)
    \/ \E minutes \in CooldownInputs : PostAlertRules(minutes)
    \/ DisableAlertRules
    \/ \E body \in FeedBodies : RefreshExchangeRates(body)

SpecClock == Init /\ [][NextClock]_vars

\* ... with the fetches on behalf of the UI and browser crashes
NextPool ==
    \/ Core
    \/ \E f \in Fetchers : GetBrowserClosed(f)
    \/ \E h \in 1..MaxLaunches : BrowserCrash(h)
    \/ \E route \in ApiRoutes : \E url \in ApiUrls : ApiRequest(route, url)
    \/ ApiResolved
    \/ ApiRespond

SpecPool == Init /\ [][NextPool]_vars

\* DELETE /api/diagnostics
ClearDiagnostics ==
    /\ envUsed < MaxEnv
    /\ diagnostics' = <<>>
    /\ envUsed' = envUsed + 1
    /\ alertLog' = {}
    /\ trigger' = ""
    /\ response' = [route |-> "/api/diagnostics", status |-> 200]
    /\ UNCHANGED <<dataFile, now, items, lists, alertRules, exchangeRates, isChecking,
                   checkingItemId, browserInstance, procs, alertCooldownByKey, sweep, api,
                   fetch, lastDispatch, checksStarted, call>>

\* an entry an earlier run of the server has written, k checks ago
EarlierDiagnostic(k) ==
    [time |-> StartTime - k, itemId |-> "a", ok |-> k % 2 = 0, price |-> None,
     stockStatus |-> "unknown", error |-> IF k % 2 = 0 THEN NULL ELSE FetchFailedMessage]

\* the diagnostics file: absent, one entry short of the cap, at the cap
LoadedDiagnostics ==
    {[k \in 1..n |-> EarlierDiagnostic(k)] : n \in {0, DIAGNOSTICS_CAP - 1, DIAGNOSTICS_CAP}}

InitDiagnostics == \E loaded \in LoadedDiagnostics : Started(loaded)

\* ... with the diagnostics file of earlier runs, the wall clock and the reset of the buffer
NextDiagnostics ==
    \/ Core
    \/ \E d \in TimeSteps : Advance(d)
    \/ ClearDiagnostics

SpecDiagnostics == InitDiagnostics /\ [][NextDiagnostics]_vars


\* the timer fires, in the price scenarios
TickPrices ==
    /\ checksStarted + Len(items) <= MaxPriceChecks
    /\ checkPrices
    /\ trigger' = "tick"
    /\ alertLog' = {}
    /\ response' = NoResponse
    /\ UNCHANGED <<diagnostics, dataFile, now, items, lists, alertRules, exchangeRates, browserInstance, procs,
                   alertCooldownByKey, api, lastDispatch, envUsed, call>>

\* ... price scenarios: sweeps whose pages load and show a price, and the wall clock
NextPrices ==
    \/ TickPrices
    \/ \E s \in SweepIds : \E o \in PriceOutcomes : CheckDone(s, o)
    \/ \E s \in SweepIds : SweepNext(s)
    \/ \E s \in SweepIds : SweepSaved(s)
    \/ \E f \in Fetchers : GetBrowserLaunched(f)
    \/ \E f \in Fetchers : PageSettled(f, "html")
    \/ \E f \in Fetchers : PageClosed(f)
    \/ \E d \in TimeSteps : Advance(d)

SpecPrices == Init /\ [][NextPrices]_vars

\* ... the URL guard on its own: validateFetchUrl for each URL, allowlist and DNS answer
GuardUrls ==
    {"http://example.com/", "http://10.0.0.5/", "http://LOCALHOST/", "ftp://example.com/",
     "http://intranet.example/", "http://nowhere.example/", "not a url"}

GuardAllowlists == {{}, {"example.org"}, {"example.com", "intranet.example"}}

\* addresses a name may resolve to: IPv4 octets and IPv6 groups
AddressPool ==
    {<<93, 184, 216, 34>>, <<10, 0, 0, 5>>, <<127, 0, 0, 1>>, <<0, 0, 0, 0>>,
     <<169, 254, 169, 254>>, <<172, 16, 0, 1>>, <<172, 31, 255, 1>>, <<172, 32, 0, 1>>,
     <<192, 168, 1, 7>>,
     <<0, 0, 0, 0, 0, 0, 0, 1>>, <<65152, 0, 0, 0, 0, 0, 0, 1>>, <<65215, 0, 0, 0, 0, 0, 0, 1>>,
     <<64512, 0, 0, 0, 0, 0, 0, 1>>, <<64786, 0, 0, 0, 0, 0, 0, 1>>,
     <<8193, 3512, 0, 0, 0, 0, 0, 1>>}

\* what dns.lookup may answer for the host of a URL: an address literal resolves to
\* itself, a name to nothing, to no record, or to one or two addresses
DnsAnswers(rawUrl) ==
    IF ParseUrl(rawUrl).hostname = "10.0.0.5" THEN {DnsLookup("10.0.0.5")}
    ELSE {DnsFail, {}} \cup {{a, b} : a \in AddressPool, b \in AddressPool}

\* one call of validateFetchUrl
Validate(rawUrl, allowed, resolved) ==
    /\ call = NoCall
    /\ call' = [fn |-> "validateFetchUrl",
                arg |-> [rawUrl |-> rawUrl, allowed |-> allowed, resolved |-> resolved],
                res |-> validateResolved(rawUrl, allowed, resolved)]
    /\ UNCHANGED <<diagnostics, dataFile, now, items, lists, alertRules, exchangeRates, isChecking, checkingItemId,
                   browserInstance, procs, alertCooldownByKey, sweep, api, fetch,
                   lastDispatch, alertLog, response, trigger, checksStarted, envUsed>>

NextGuard ==
    \E rawUrl \in GuardUrls : \E allowed \in GuardAllowlists : \E resolved \in DnsAnswers(rawUrl) :
        Validate(rawUrl, allowed, resolved)

SpecGuard == Init /\ [][NextGuard]_vars

\* ------------------------------------------------------------ notification
Sinks == <<"local", "discord", "telegram">>

\* settings.discordWebhook, settings.telegramWebhook, settings.telegramChatId: set or empty
SinkSettings ==
    [discordWebhook : {"", "https://discord.example/api/webhooks/1/t"},
     telegramWebhook : {"", "123:token"},
     telegramChatId : {"", "42"}]

\* the sink is called for: the local notifier always, the others when configured
Configured(settings, sink) ==
    CASE sink = "local"    -> TRUE
      [] sink = "discord"  -> settings.discordWebhook # ""
      [] sink = "telegram" -> settings.telegramWebhook # "" /\ settings.telegramChatId # ""

\* how a failing sink shows: notifier.notify hands its error to the callback, and
\* notifyAll passes none; an awaited axios.post throws
FailureThrows(sink) == sink # "local"

GuardedFromTelegramOn(sink) == sink = "telegram"

\* the call of the sink stands in a try block whose catch logs the error
Guarded(sink) == sink \in {"discord", "telegram"}

\* what the sink is sent
Payload(sink, title, message) ==
    CASE sink = "local"    -> [title |-> title, message |-> message, sound |-> TRUE, wait |-> TRUE]
      [] sink = "discord"  -> [content |-> <<"**", title, "**\n", message>>]
      [] sink = "telegram" -> [chat_id |-> "42", text |-> <<"*", title, "*\n", message>>,
                               parse_mode |-> "Markdown"]

\* notifyAll from sink k on: the sinks tried so far, the failures logged, and how the
\* promise settles
RECURSIVE NotifyFrom(_, _, _, _, _, _, _)
NotifyFrom(k, settings, fails, title, message, tried, logged) ==
    IF k > Len(Sinks) THEN [tried |-> tried, logged |-> logged, promise |-> "fulfilled"]
    ELSE LET sink == Sinks[k]
         IN  IF ~Configured(settings, sink)
             THEN NotifyFrom(k + 1, settings, fails, title, message, tried, logged)
             ELSE LET tried2 == Append(tried, [sink |-> sink, body |-> Payload(sink, title, message)])
                  IN  IF sink \in fails /\ FailureThrows(sink)
                      THEN IF Guarded(sink)
                           THEN NotifyFrom(k + 1, settings, fails, title, message, tried2,
                                           logged \cup {sink})
                           ELSE [tried |-> tried2, logged |-> logged, promise |-> "rejected"]
                      ELSE NotifyFrom(k + 1, settings, fails, title, message, tried2, logged)

notifyAll(settings, fails, title, message) ==
    NotifyFrom(1, settings, fails, title, message, <<>>, {})

AlertTitles ==
    {"Price Drop Alert", "Target Price Hit", "24h Drop Alert", "All-Time Low", "Out of Stock",
     "Low Extraction Confidence", "Stale Price Item"}

\* one dispatch: notifyAll(title, message) with the sinks of fails failing
Notify(settings, fails, title) ==
    /\ call = NoCall
    /\ call' = [fn |-> "notifyAll",
                arg |-> [settings |-> settings, fails |-> fails, title |-> title],
                res |-> notifyAll(settings, fails, title, "item is now 99")]
    /\ UNCHANGED <<diagnostics, dataFile, now, items, lists, alertRules, exchangeRates, isChecking, checkingItemId,
                   browserInstance, procs, alertCooldownByKey, sweep, api, fetch,
                   lastDispatch, alertLog, response, trigger, checksStarted, envUsed>>

NextNotify ==
    \E settings \in SinkSettings : \E fails \in SUBSET {Sinks[k] : k \in 1..Len(Sinks)} :
        \E title \in AlertTitles : Notify(settings, fails, title)

SpecNotify == Init /\ [][NextNotify]_vars

\* ---------------------------------------------------------------- page text
CharAt(s, i) == SubSeq(s, i, i)

Tail1(s) == SubSeq(s, 2, Len(s))

\* String.prototype.includes
Includes(s, t) == \E i \in 1..(Len(s) - Len(t) + 1) : SubSeq(s, i, i + Len(t) - 1) = t

\* a regular expression that is an alternation of literal words
MatchesAny(s, words) == \E w \in words : Includes(s, w)

UpperLetters == "ABCDEFGHIJKLMNOPQRSTUVWXYZ"
LowerLetters == "abcdefghijklmnopqrstuvwxyz"
DigitChars == "0123456789"

IsDigit(c) == c # "" /\ Includes(DigitChars, c)
IsUpper(c) == c # "" /\ Includes(UpperLetters, c)
IsLower(c) == c # "" /\ Includes(LowerLetters, c)
IsWordChar(c) == IsDigit(c) \/ IsUpper(c) \/ IsLower(c) \/ c = "_"

PositionIn(alphabet, c) == CHOOSE i \in 1..Len(alphabet) : CharAt(alphabet, i) = c
DigitValue(c) == PositionIn(DigitChars, c) - 1

RECURSIVE toLowerCase(_)
toLowerCase(s) ==
    IF s = "" THEN ""
    ELSE LET c == CharAt(s, 1)
         IN  (IF IsUpper(c) THEN CharAt(LowerLetters, PositionIn(UpperLetters, c)) ELSE c)
                 \o toLowerCase(Tail1(s))

RECURSIVE toUpperCase(_)
toUpperCase(s) ==
    IF s = "" THEN ""
    ELSE LET c == CharAt(s, 1)
         IN  (IF IsLower(c) THEN CharAt(UpperLetters, PositionIn(LowerLetters, c)) ELSE c)
                 \o toUpperCase(Tail1(s))

\* s.replace(/c/g, '')
RECURSIVE RemoveAll(_, _)
RemoveAll(s, c) ==
    IF s = "" THEN ""
    ELSE (IF CharAt(s, 1) = c THEN "" ELSE CharAt(s, 1)) \o RemoveAll(Tail1(s), c)

\* s.replace(c, r): the first occurrence only
RECURSIVE ReplaceFirst(_, _, _)
ReplaceFirst(s, c, r) ==
    IF s = "" THEN ""
    ELSE IF CharAt(s, 1) = c THEN r \o Tail1(s)
    ELSE CharAt(s, 1) \o ReplaceFirst(Tail1(s), c, r)

\* s.replace(/\s+/g, ' ')
RECURSIVE CollapseSpaces(_)
CollapseSpaces(s) ==
    IF Len(s) < 2 THEN s
    ELSE IF CharAt(s, 1) = " " /\ CharAt(s, 2) = " " THEN CollapseSpaces(Tail1(s))
    ELSE CharAt(s, 1) \o CollapseSpaces(Tail1(s))

RECURSIVE TrimStart(_)
TrimStart(s) == IF s # "" /\ CharAt(s, 1) = " " THEN TrimStart(Tail1(s)) ELSE s

RECURSIVE TrimEnd(_)
TrimEnd(s) ==
    IF s # "" /\ CharAt(s, Len(s)) = " " THEN TrimEnd(SubSeq(s, 1, Len(s) - 1)) ELSE s

Trim(s) == TrimEnd(TrimStart(s))

LastIndexOf(s, c) ==
    LET at == {i \in 1..Len(s) : CharAt(s, i) = c}
    IN  IF at = {} THEN 0 ELSE CHOOSE i \in at : \A j \in at : j <= i

\* the number of digits of s from position i on
RECURSIVE DigitRun(_, _)
DigitRun(s, i) == IF i <= Len(s) /\ IsDigit(CharAt(s, i)) THEN 1 + DigitRun(s, i + 1) ELSE 0

RECURSIVE Pow10(_)
Pow10(k) == IF k = 0 THEN 1 ELSE 10 * Pow10(k - 1)

\* the value of the digits of s from i to j
RECURSIVE DigitsValue(_, _, _)
DigitsValue(s, i, j) ==
    IF j < i THEN 0 ELSE 10 * DigitsValue(s, i, j - 1) + DigitValue(CharAt(s, j))

\* parseFloat on an unsigned decimal: the longest prefix that is a number, as a fraction;
\* None for NaN
parseFloat(s) ==
    LET whole == DigitRun(s, 1)
        decimals == IF whole + 1 <= Len(s) /\ CharAt(s, whole + 1) = "." THEN DigitRun(s, whole + 2) ELSE 0
    IN  IF whole + decimals = 0 THEN None
        ELSE Some(Frac(DigitsValue(s, 1, whole) * Pow10(decimals)
                           + DigitsValue(s, whole + 2, whole + 1 + decimals),
                       Pow10(decimals)))

normalizePriceString(rawNum, currencyHint) ==
    LET s0 == RemoveAll(Trim(rawNum), " ")
        turkishLike == currencyHint = "TRY"
        lastPart == Len(s0) - LastIndexOf(s0, ".")
        twoDecimals == /\ Len(s0) >= 3
                       /\ CharAt(s0, Len(s0) - 2) = ","
                       /\ IsDigit(CharAt(s0, Len(s0) - 1))
                       /\ IsDigit(CharAt(s0, Len(s0)))
        s == IF Includes(s0, ".") /\ Includes(s0, ",")
             THEN IF LastIndexOf(s0, ",") > LastIndexOf(s0, ".")
                  THEN ReplaceFirst(RemoveAll(s0, "."), ",", ".")
                  ELSE RemoveAll(s0, ",")
             ELSE IF Includes(s0, ",")
             THEN IF turkishLike \/ twoDecimals THEN ReplaceFirst(s0, ",", ".")
                  ELSE RemoveAll(s0, ",")
             ELSE IF Includes(s0, ".") /\ turkishLike /\ lastPart = 3 THEN RemoveAll(s0, ".")
             ELSE s0
    IN  IF s0 = "" THEN None ELSE parseFloat(s)

\* the end of the match of the price pattern that starts at i, 0 when none starts there:
\* first alternative 1-3 digits, groups of a separator and 3 digits, a separator and 1-2
\* digits; second alternative digits with an optional separator and 1-2 digits
IsGroup(s, i) ==
    /\ CharAt(s, i) \in {".", ",", " "}
    /\ IsDigit(CharAt(s, i + 1)) /\ IsDigit(CharAt(s, i + 2)) /\ IsDigit(CharAt(s, i + 3))

RECURSIVE GroupRun(_, _)
GroupRun(s, i) == IF i + 3 <= Len(s) /\ IsGroup(s, i) THEN 1 + GroupRun(s, i + 4) ELSE 0

DecimalsAt(s, i) ==
    IF i + 1 <= Len(s) /\ CharAt(s, i) \in {".", ","} /\ IsDigit(CharAt(s, i + 1))
    THEN IF i + 2 <= Len(s) /\ IsDigit(CharAt(s, i + 2)) THEN 2 ELSE 1
    ELSE 0

MatchEnd(s, i) ==
    LET run == DigitRun(s, i)
        firsts == {<<d, g>> \in (1..3) \X (0..Len(s)) :
                      /\ d <= run
                      /\ g <= GroupRun(s, i + d)
                      /\ DecimalsAt(s, i + d + 4 * g) > 0}
        first == CHOOSE p \in firsts :
                     \A q \in firsts : q[1] < p[1] \/ (q[1] = p[1] /\ q[2] <= p[2])
        tail == DecimalsAt(s, i + run)
    IN  IF run = 0 THEN 0
        ELSE IF firsts # {}
        THEN i + first[1] + 4 * first[2] + DecimalsAt(s, i + first[1] + 4 * first[2])
        ELSE i + run - 1 + (IF tail > 0 THEN tail + 1 ELSE 0)

RECURSIVE MatchesFrom(_, _)
MatchesFrom(s, i) ==
    IF i > Len(s) THEN <<>>
    ELSE LET e == MatchEnd(s, i)
         IN  IF e = 0 THEN MatchesFrom(s, i + 1)
             ELSE <<SubSeq(s, i, e)>> \o MatchesFrom(s, e + 1)

extractNumericCandidates(text) ==
    LET all == MatchesFrom(text, 1)
    IN  SubSeq(all, 1, IF Len(all) < 6 THEN Len(all) ELSE 6)

EndsWith(s, t) == Len(t) <= Len(s) /\ SubSeq(s, Len(s) - Len(t) + 1, Len(s)) = t

\* new URL(targetUrl).hostname of an absolute http(s) URL without port or credentials
HostnameOf(targetUrl) ==
    LET lower == toLowerCase(targetUrl)
        start == (CHOOSE i \in 1..Len(lower) : SubSeq(lower, i, i + 2) = "://") + 3
        stops == {i \in start..Len(lower) : CharAt(lower, i) = "/"}
        stop == IF stops = {} THEN Len(lower) + 1 ELSE CHOOSE i \in stops : \A j \in stops : i <= j
    IN  SubSeq(lower, start, stop - 1)

isAmazonTarget(targetUrl) == Includes(HostnameOf(targetUrl), "amazon.")

\* --------------------------------------------------------------- availability
OUT_OF_STOCK_TERMS ==
    {"out of stock", "out-of-stock", "sold out", "currently unavailable",
     "temporarily unavailable", "not available", "unavailable", "not in stock",
     "currently out of stock", "backorder", "back order", "preorder", "pre-order",
     "notify me", "email me when available", "coming soon",
     "stokta yok", "stok yok", "stokta bulunmuyor", "stokta bulunmamakta",
     "stokta bulunmamaktadir", "mevcut degil", "su anda mevcut degil", "su an mevcut degil",
     "gecici olarak stokta yok", "simdilik mevcut degil", "urun mevcut degil", "tukendi",
     "satista degil", "satista yok", "stoga gelince haber ver", "haber ver",
     "agotado", "sin stock", "no disponible", "rupture de stock", "epuise", "indisponible",
     "ausverkauft", "nicht verfugbar", "nicht auf lager", "esgotado", "sem estoque",
     "esaurito", "non disponibile", "niet op voorraad", "uitverkocht",
     "brak w magazynie", "niedostepny", "net v nalichii", "rasprodano"}

IN_STOCK_TERMS ==
    {"in stock", "available now", "ready to ship", "ships today", "buy now", "add to cart",
     "sepete ekle", "hemen al", "stokta", "mevcut", "satin al", "en stock", "disponible",
     "auf lager", "verfugbar", "disponivel", "em estoque", "disponibile", "op voorraad",
     "dostepny", "w magazynie", "v nalichii"}

\* lower case, runs of white space to one space, trimmed (page text here is ASCII)
normalizeAvailabilityText(value) == Trim(CollapseSpaces(toLowerCase(value)))

\* the best score of the terms the text contains, 0 when it contains none
TermScore(text, terms, long, short) ==
    LET found == {t \in terms : Includes(text, t)}
    IN  IF found = {} THEN 0
        ELSE IF \E t \in found : Len(t) > 10 THEN long ELSE short

scoreAvailabilityText(rawText) ==
    LET text == normalizeAvailabilityText(rawText)
        outScore == TermScore(text, OUT_OF_STOCK_TERMS, 70, 60)
        inScore == TermScore(text, IN_STOCK_TERMS, 62, 54)
    IN  IF text = "" \/ (outScore = 0 /\ inScore = 0) THEN None
        ELSE Some([outScore |-> outScore, inScore |-> inScore])

StructuredOutWords ==
    {"outofstock", "out_of_stock", "soldout", "sold_out", "discontinued", "unavailable",
     "currentlyunavailable", "temporarilyunavailable", "notinstock", "preorder", "pre-order",
     "backorder", "back-order"}

StructuredInWords == {"instock", "in_stock", "limitedavailability", "availablefororder"}

classifyStructuredTokenWeak(rawValue) ==
    LET v == normalizeAvailabilityText(rawValue)
    IN  IF v = "" THEN None
        ELSE IF MatchesAny(v, StructuredOutWords)
        THEN Some([status |-> "out_of_stock", confidence |-> 91])
        ELSE IF MatchesAny(v, StructuredInWords)
        THEN Some([status |-> "in_stock", confidence |-> 90])
        ELSE None

classifyStructuredToken(rawValue) ==
    LET v == normalizeAvailabilityText(rawValue)
    IN  IF v = "" THEN None
        ELSE IF MatchesAny(v, StructuredOutWords)
        THEN Some([status |-> "out_of_stock", confidence |-> 94])
        ELSE IF MatchesAny(v, StructuredInWords)
        THEN Some([status |-> "in_stock", confidence |-> 90])
        ELSE None

\* the local variables of detectAvailability before the first signal
NoSignals ==
    [bestOut |-> [score |-> 0, source |-> ""],
     bestIn |-> [score |-> 0, source |-> ""],
     hasEnabledPurchaseAction |-> FALSE,
     hasDisabledPurchaseAction |-> FALSE,
     hasBuyingOptionsAction |-> FALSE,
     requiresVariantSelection |-> FALSE,
     hasVariantSelectors |-> FALSE,
     structuredOut |-> None,
     structuredIn |-> None]

setStructured(d, cls, source) ==
    LET entry == [status |-> cls.status, confidence |-> cls.confidence, source |-> source]
    IN  IF cls.status = "out_of_stock"
        THEN IF d.structuredOut = None \/ cls.confidence > Val(d.structuredOut).confidence
             THEN [d EXCEPT !.structuredOut = Some(entry)] ELSE d
        ELSE IF d.structuredIn = None \/ cls.confidence > Val(d.structuredIn).confidence
             THEN [d EXCEPT !.structuredIn = Some(entry)] ELSE d

Min(a, b) == IF a <= b THEN a ELSE b

considerSignal(d, text, baseScore, source) ==
    LET scored == scoreAvailabilityText(text)
        outScore == IF Val(scored).outScore # 0 THEN Min(100, Val(scored).outScore + baseScore) ELSE 0
        inScore == IF Val(scored).inScore # 0 THEN Min(100, Val(scored).inScore + baseScore) ELSE 0
        d1 == IF outScore > d.bestOut.score
              THEN [d EXCEPT !.bestOut = [score |-> outScore, source |-> source]] ELSE d
    IN  IF scored = None THEN d
        ELSE IF inScore > d1.bestIn.score
        THEN [d1 EXCEPT !.bestIn = [score |-> inScore, source |-> source]] ELSE d1

\* a structured value: a text signal and, when it classifies, a structured signal
StructuredValue(d, value, baseScore, source) ==
    LET d1 == considerSignal(d, value, baseScore, source)
        cls == classifyStructuredToken(value)
    IN  IF cls = None THEN d1 ELSE setStructured(d1, Val(cls), source)

RECURSIVE StructuredValues(_, _, _, _)
StructuredValues(d, values, baseScore, source) ==
    IF values = <<>> THEN d
    ELSE StructuredValues(StructuredValue(d, Head(values), baseScore, source), Tail(values),
                          baseScore, source)

RECURSIVE StockTexts(_, _)
StockTexts(d, texts) ==
    IF texts = <<>> THEN d
    ELSE LET compact == normalizeAvailabilityText(Head(texts))
         IN  StockTexts(IF compact = "" \/ Len(compact) > 500 THEN d
                        ELSE considerSignal(d, compact, 18, "selector"), Tail(texts))

RaiseBestOut(d, score, source) ==
    IF d.bestOut.score < score THEN [d EXCEPT !.bestOut = [score |-> score, source |-> source]]
    ELSE d

\* the Amazon buy-box structure of the page
AmazonStructure(d, page) ==
    LET d1 == IF page.unqualifiedBuyBox
              THEN RaiseBestOut([d EXCEPT !.hasBuyingOptionsAction = TRUE], 88,
                                "amazon-unqualified-buybox")
              ELSE d
    IN  IF page.buyingOptionsStructure
        THEN RaiseBestOut([d1 EXCEPT !.hasBuyingOptionsAction = TRUE], 72,
                          "amazon-buying-options-structure")
        ELSE d1

BuyingOptionsWords == {"see all buying options", "all buying options", "buying options",
                       "satin alma seceneklerini gor"}
PurchaseLabelWords == {"add to cart", "buy now", "sepete ekle", "hemen al", "satin al"}
PurchaseActionWords == PurchaseLabelWords \cup {"checkout", "addtocart", "buynow", "buy-now"}
NotifyWords == {"notify me", "email me", "haber ver", "gelince haber ver"}
VariantPromptWords ==
    {"select size", "choose size", "select option", "choose option", "select variant",
     "choose variant", "beden sec", "numara sec", "varyant sec", "renk sec"}
ShortcutWords == {"shift", "alt", "option", "ctrl", "cmd", "command"}

\* /(shift|alt|option|ctrl|cmd|command)\b/
EndsWord(s, w) ==
    \E i \in 1..(Len(s) - Len(w) + 1) :
        /\ SubSeq(s, i, i + Len(w) - 1) = w
        /\ (i + Len(w) > Len(s) \/ ~IsWordChar(CharAt(s, i + Len(w))))

\* one element of the button loop
Button(d, button, isAmazon) ==
    LET normalizedText == normalizeAvailabilityText(button.text)
        attrBlob == normalizeAvailabilityText(button.attrs)
        isDisabled == button.disabled
        hasKeyboardShortcutHint == \E w \in ShortcutWords : EndsWord(normalizedText, w)
        looksLikeShortcutPurchaseLabel ==
            MatchesAny(normalizedText, PurchaseLabelWords) /\ hasKeyboardShortcutHint
        d1 == IF ~(isAmazon /\ looksLikeShortcutPurchaseLabel)
              THEN considerSignal(d, normalizedText, IF isDisabled THEN 12 ELSE 6, "button")
              ELSE d
        actionBlob == normalizedText \o " " \o attrBlob
        isBuyingOptionsAction == MatchesAny(normalizedText, BuyingOptionsWords)
        isPurchaseAction == /\ MatchesAny(actionBlob, PurchaseActionWords)
                            /\ ~(isAmazon /\ looksLikeShortcutPurchaseLabel)
        isNotifyAction == MatchesAny(normalizedText, NotifyWords)
        isVariantSelectionPrompt == MatchesAny(normalizedText, VariantPromptWords)
        d2 == IF isVariantSelectionPrompt THEN [d1 EXCEPT !.requiresVariantSelection = TRUE]
              ELSE d1
        d3 == IF isBuyingOptionsAction THEN [d2 EXCEPT !.hasBuyingOptionsAction = TRUE] ELSE d2
        d4 == IF isBuyingOptionsAction /\ ~d3.hasEnabledPurchaseAction
              THEN RaiseBestOut(d3, 68, "buying-options") ELSE d3
        d5 == IF isPurchaseAction /\ ~isDisabled /\ ~isBuyingOptionsAction
              THEN LET e == [d4 EXCEPT !.hasEnabledPurchaseAction = TRUE]
                   IN  IF e.bestIn.score < 78
                       THEN [e EXCEPT !.bestIn = [score |-> 78, source |-> "purchase-action"]]
                       ELSE e
              ELSE d4
        d6 == IF isPurchaseAction /\ isDisabled /\ ~isBuyingOptionsAction
              THEN RaiseBestOut([d5 EXCEPT !.hasDisabledPurchaseAction = TRUE], 80,
                                "purchase-action-disabled")
              ELSE d5
    IN  IF isNotifyAction THEN RaiseBestOut(d6, 74, "notify-action") ELSE d6

RECURSIVE Buttons(_, _, _)
Buttons(d, buttons, isAmazon) ==
    IF buttons = <<>> THEN d
    ELSE Buttons(Button(d, Head(buttons), isAmazon), Tail(buttons), isAmazon)

VariantAttrWords == {"size", "beden", "numara", "renk", "color", "variant", "varyant",
                     "secenek", "secenekler", "option"}

\* a select counts as a variant selector by its name only
VariantSelectorsByName(d, selects) ==
    IF \E k \in 1..Len(selects) :
           MatchesAny(normalizeAvailabilityText(selects[k].attrs), VariantAttrWords)
    THEN [d EXCEPT !.hasVariantSelectors = TRUE] ELSE d

\* some visible select has several options or a variant-like name
VariantSelectors(d, selects) ==
    IF \E k \in 1..Len(selects) :
           \/ selects[k].optionCount > 1
           \/ MatchesAny(normalizeAvailabilityText(selects[k].attrs), VariantAttrWords)
    THEN [d EXCEPT !.hasVariantSelectors = TRUE] ELSE d

RECURSIVE JoinTexts(_)
JoinTexts(texts) ==
    IF texts = <<>> THEN ""
    ELSE IF Len(texts) = 1 THEN Head(texts)
    ELSE Head(texts) \o " " \o JoinTexts(Tail(texts))

\* $('body').text(): the text of the stock elements and of the buttons
BodyText(page) ==
    JoinTexts(page.stockTexts \o [k \in 1..Len(page.buttons) |-> page.buttons[k].text])

BodyPrompt(d, page) ==
    IF ~d.requiresVariantSelection
       /\ MatchesAny(normalizeAvailabilityText(BodyText(page)),
                     VariantPromptWords \cup {"once beden sec"})
    THEN [d EXCEPT !.requiresVariantSelection = TRUE] ELSE d

\* a required variant choice caps a weak out-of-stock score and lifts the in-stock score
VariantAdjust(d, page) ==
    LET d1 == IF d.bestOut.score < 92
              THEN [d EXCEPT !.bestOut.score = Min(d.bestOut.score, 70)] ELSE d
    IN  IF ~d.requiresVariantSelection THEN d
        ELSE IF d1.bestIn.score < 72 /\ (d1.hasEnabledPurchaseAction \/ Len(page.selects) > 0)
        THEN [d1 EXCEPT !.bestIn = [score |-> 72, source |-> "variant-selection"]]
        ELSE d1

AmazonUnavailableWords ==
    {"currently unavailable", "temporarily unavailable", "temporarily out of stock",
     "currently out of stock", "out of stock", "not available", "stokta yok",
     "stokta bulunmuyor", "su anda mevcut degil", "gecici olarak stokta yok",
     "urun mevcut degil", "mevcut degil"}

Or(text, fallback) == IF text # "" THEN text ELSE fallback

\* the verdict from the collected signals
Verdict(d, page, isAmazon) ==
    LET variants == (d.requiresVariantSelection \/ d.hasVariantSelectors)
                    /\ d.hasDisabledPurchaseAction /\ ~d.hasEnabledPurchaseAction
        outIsStrongStructured ==
            d.structuredOut # None /\ Val(d.structuredOut).confidence >= 94
        amazonAvailabilityText == normalizeAvailabilityText(JoinTexts(page.stockTexts))
    IN  IF variants /\ ~outIsStrongStructured /\ d.bestOut.score < 92
        THEN [status |-> "in_stock", confidence |-> Max(d.bestIn.score, 72),
              source |-> Or(d.bestIn.source, "variant-selection")]
        ELSE IF d.structuredOut # None
                /\ (d.structuredIn = None
                    \/ Val(d.structuredOut).confidence >= Val(d.structuredIn).confidence + 2)
        THEN Val(d.structuredOut)
        ELSE IF d.structuredIn # None /\ d.structuredOut = None
        THEN Val(d.structuredIn)
        ELSE IF d.hasEnabledPurchaseAction /\ ~d.hasDisabledPurchaseAction /\ d.bestOut.score < 88
        THEN [status |-> "in_stock", confidence |-> Max(d.bestIn.score, 74),
              source |-> Or(d.bestIn.source, "purchase-action")]
        ELSE IF d.bestOut.score >= 82 /\ d.bestOut.score >= d.bestIn.score + 10
        THEN [status |-> "out_of_stock", confidence |-> d.bestOut.score,
              source |-> d.bestOut.source]
        ELSE IF d.bestIn.score >= 72 /\ d.bestIn.score >= d.bestOut.score + 6
        THEN [status |-> "in_stock", confidence |-> d.bestIn.score, source |-> d.bestIn.source]
        ELSE IF d.hasDisabledPurchaseAction /\ d.bestOut.score >= 74
        THEN [status |-> "out_of_stock", confidence |-> d.bestOut.score,
              source |-> Or(d.bestOut.source, "purchase-action-disabled")]
        ELSE IF isAmazon /\ ~d.hasEnabledPurchaseAction
                /\ MatchesAny(amazonAvailabilityText, AmazonUnavailableWords)
        THEN [status |-> "out_of_stock", confidence |-> Max(d.bestOut.score, 90),
              source |-> "amazon-availability"]
        ELSE IF isAmazon /\ d.hasBuyingOptionsAction /\ ~d.hasEnabledPurchaseAction
                /\ d.bestIn.score < 78
        THEN [status |-> "out_of_stock", confidence |-> Max(d.bestOut.score, 84),
              source |-> Or(d.bestOut.source, "buying-options")]
        ELSE [status |-> "unknown", confidence |-> Max(d.bestIn.score, d.bestOut.score),
              source |-> ""]

\* the signals in the order the code collects them
Signals(page, targetUrl) ==
    LET isAmazon == isAmazonTarget(targetUrl)
        d1 == StructuredValues(NoSignals, page.availabilityMeta, 20, "meta-availability")
        d2 == StructuredValues(d1, page.jsonLdAvailability, 22, "jsonld-availability")
        d3 == StockTexts(d2, page.stockTexts)
        d4 == IF isAmazon THEN AmazonStructure(d3, page) ELSE d3
        d5 == Buttons(d4, page.buttons, isAmazon)
        d6 == VariantSelectors(d5, page.selects)
        d7 == BodyPrompt(d6, page)
    IN  VariantAdjust(d7, page)

\* withSignals
WithSignals(result, d) ==
    [status |-> result.status, confidence |-> result.confidence, source |-> result.source,
         signals |-> [hasEnabledPurchaseAction |-> d.hasEnabledPurchaseAction,
                      hasDisabledPurchaseAction |-> d.hasDisabledPurchaseAction,
                      hasBuyingOptionsAction |-> d.hasBuyingOptionsAction,
                      requiresVariantSelection |-> d.requiresVariantSelection,
                      hasVariantSelectors |-> d.hasVariantSelectors,
                      bestInScore |-> d.bestIn.score,
                      bestOutScore |-> d.bestOut.score]]

WithVerdict(d, page, targetUrl) == WithSignals(Verdict(d, page, isAmazonTarget(targetUrl)), d)

detectAvailability(page, targetUrl) == WithVerdict(Signals(page, targetUrl), page, targetUrl)

\* ------------------------------------------------------------ price extraction
BASE_PRICE_SELECTORS ==
    <<"meta[property=\"og:price:amount\"]", "meta[itemprop=\"price\"]",
      "meta[property=\"product:price:amount\"]", "meta[name=\"twitter:data1\"]",
      "[itemprop=\"price\"]", "[data-test-id*=\"price\"]", "[data-testid*=\"price\"]",
      "[class*=\"price\"]", "[id*=\"price\"]", ".price", ".product-price", ".new-price",
      ".current-price", ".discount_price", ".indirimli_fiyat", ".satis_fiyati",
      ".a-price .a-offscreen", "#priceblock_ourprice", "#priceblock_dealprice">>

SITE_ADAPTERS ==
    <<[match |-> "amazon.",
       selectors |-> <<"#corePrice_feature_div .a-price .a-offscreen",
                       "#corePriceDisplay_desktop_feature_div .a-price .a-offscreen",
                       "#corePriceDisplay_mobile_feature_div .a-price .a-offscreen",
                       "#apex_desktop .a-price .a-offscreen",
                       "#apex_mobile .a-price .a-offscreen",
                       "#price_inside_buybox", "#priceblock_saleprice", "#priceblock_ourprice",
                       "input#twister-plus-price-data-price">>],
      [match |-> "trendyol.com",
       selectors |-> <<".prc-dsc", ".prc-slg", "[class*=\"prc\"]", "[data-test-id*=\"price\"]">>],
      [match |-> "hepsiburada.com",
       selectors |-> <<"[data-test-id=\"price-current-price\"]", "[id*=\"offering-price\"]",
                       "[class*=\"price\"]">>],
      [match |-> "n11.com",
       selectors |-> <<".newPrice ins", ".newPrice", "[class*=\"price\"]">>],
      [match |-> "boyner.com.tr",
       selectors |-> <<".m-productPrice__salePrice", "[class*=\"salePrice\"]",
                       "[class*=\"price\"]">>]>>

getSiteSelectors(hostname) ==
    LET found == {k \in 1..Len(SITE_ADAPTERS) : Includes(hostname, SITE_ADAPTERS[k].match)}
    IN  IF found = {} THEN <<>>
        ELSE SITE_ADAPTERS[CHOOSE k \in found : \A j \in found : k <= j].selectors

getDomainHints(targetUrl) ==
    LET host == HostnameOf(targetUrl)
        preferredCurrency ==
            IF EndsWith(host, ".tr")
               \/ MatchesAny(host, {"trendyol", "hepsiburada", "n11", "boyner", "amazon.com.tr"})
            THEN "TRY"
            ELSE IF Includes(host, "amazon.de") \/ EndsWith(host, ".de") THEN "EUR"
            ELSE IF Includes(host, "amazon.co.uk") \/ EndsWith(host, ".co.uk") THEN "GBP"
            ELSE IF Includes(host, "amazon.jp") \/ EndsWith(host, ".jp") THEN "JPY"
            ELSE IF Includes(host, "amazon.ca") \/ EndsWith(host, ".ca") THEN "CAD"
            ELSE IF Includes(host, "amazon.com.au") \/ EndsWith(host, ".com.au") THEN "AUD"
            ELSE "USD"
    IN  [preferredCurrency |-> preferredCurrency, selectors |-> getSiteSelectors(host)]

\* the code stands in the text with no letter on either side
CodeIn(t, code) ==
    \E i \in 1..(Len(t) - Len(code) + 1) :
        /\ SubSeq(t, i, i + Len(code) - 1) = code
        /\ (i = 1 \/ ~IsUpper(CharAt(t, i - 1)))
        /\ (i + Len(code) > Len(t) \/ ~IsUpper(CharAt(t, i + Len(code))))

\* the currency signs of the pages here are "$" and the three-letter codes
detectCurrencyFromText(text, fallback) ==
    LET t == toUpperCase(text)
    IN  IF CodeIn(t, "TRY") \/ CodeIn(t, "TL") THEN "TRY"
        ELSE IF CodeIn(t, "EUR") THEN "EUR"
        ELSE IF CodeIn(t, "GBP") THEN "GBP"
        ELSE IF CodeIn(t, "JPY") THEN "JPY"
        ELSE IF CodeIn(t, "CAD") THEN "CAD"
        ELSE IF CodeIn(t, "AUD") THEN "AUD"
        ELSE IF CodeIn(t, "CHF") THEN "CHF"
        ELSE IF CodeIn(t, "CNY") THEN "CNY"
        ELSE IF Includes(t, "$") \/ CodeIn(t, "USD") THEN "USD"
        ELSE fallback

\* \bword\b
HasWord(s, w) ==
    \E i \in 1..(Len(s) - Len(w) + 1) :
        /\ SubSeq(s, i, i + Len(w) - 1) = w
        /\ (i = 1 \/ ~IsWordChar(CharAt(s, i - 1)))
        /\ (i + Len(w) > Len(s) \/ ~IsWordChar(CharAt(s, i + Len(w))))

CurrencyCodes == {"TRY", "USD", "EUR", "GBP", "JPY", "CAD", "AUD", "CHF", "CNY", "TL"}

HasExplicitCurrency(rawText) ==
    Includes(rawText, "$") \/ \E code \in CurrencyCodes : HasWord(toUpperCase(rawText), code)

IsPositive(number) == number # None /\ Val(number)[1] > 0

\* number < bound, for a fraction and an integer
Below(number, bound) == Val(number)[1] < bound * Val(number)[2]

PriceWords == {"price", "fiyat", "ourprice", "deal", "sale", "discount"}
WildcardSelectors == {"[class*=\"price\"]", "[id*=\"price\"]"}

CandidateScore(lc, selector, source, currency, price, preferredCurrency, scoreBase) ==
    scoreBase
    + (IF MatchesAny(lc, PriceWords \cup {"current"}) THEN 25 ELSE 0)
    - (IF MatchesAny(lc, {"shipping", "delivery", "kargo", "installment", "taksit", "monthly",
                          "month", "save"}) THEN 25 ELSE 0)
    - (IF MatchesAny(lc, {"availability", "website", "url", "vat", "date", "mm/dd/yyyy"})
       THEN 40 ELSE 0)
    - (IF MatchesAny(lc, {"width", "height", "margin", "padding", "font", "button", "registry",
                          "spacing"}) THEN 45 ELSE 0)
    + (IF selector # "" /\ MatchesAny(toLowerCase(selector), PriceWords) THEN 18 ELSE 0)
    - (IF selector # "" /\ MatchesAny(toLowerCase(selector),
                                      {"old", "strike", "cross", "was", "list", "compare"})
       THEN 20 ELSE 0)
    - (IF selector # "" /\ MatchesAny(selector, WildcardSelectors) THEN 20 ELSE 0)
    - (IF preferredCurrency # "" /\ currency # preferredCurrency /\ source # "json-ld"
       THEN 12 ELSE 0)
    - (IF Below(price, 2) /\ source # "json-ld" THEN 50 ELSE 0)
    + (IF currency \in SUPPORTED_CURRENCIES THEN 8 ELSE 0)
    + (IF IsPositive(price) /\ Below(price, 2000000) THEN 5 ELSE 0)

buildCandidate(text, selector, source, preferredCurrency, scoreBase) ==
    LET rawText == Trim(text)
        currency == detectCurrencyFromText(rawText, preferredCurrency)
        rawNumbers == extractNumericCandidates(rawText)
        price == normalizePriceString(rawNumbers[1], currency)
    IN  IF rawText = "" \/ Len(rawText) > 220 THEN None
        ELSE IF rawNumbers = <<>> THEN None
        ELSE IF Len(rawNumbers) > 2 /\ ~HasExplicitCurrency(rawText) THEN None
        ELSE IF source = "text" /\ ~HasExplicitCurrency(rawText)
                /\ ~MatchesAny(toLowerCase(rawText), PriceWords) THEN None
        ELSE IF ~IsPositive(price) THEN None
        ELSE Some([price |-> Val(price), currency |-> currency, selector |-> selector,
                   source |-> source,
                   score |-> CandidateScore(toLowerCase(rawText), selector, source, currency,
                                            price, preferredCurrency, scoreBase)])

\* the candidate of a "price" / "priceCurrency" or "priceAmount" match in the raw HTML
pushRaw(rawPrice, rawCurrency, score, preferredCurrency) ==
    LET currency == IF rawCurrency # "" /\ toUpperCase(rawCurrency) \in SUPPORTED_CURRENCIES
                    THEN toUpperCase(rawCurrency) ELSE preferredCurrency
        price == normalizePriceString(rawPrice, currency)
    IN  IF ~IsPositive(price) THEN <<>>
        ELSE <<[price |-> Val(price), currency |-> currency, selector |-> "",
                source |-> "raw-json", score |-> score]>>

RECURSIVE Flatten(_)
Flatten(seqs) == IF seqs = <<>> THEN <<>> ELSE Head(seqs) \o Flatten(Tail(seqs))

\* a JSON-LD offer whose script text reads "price":"...","priceCurrency":"XXX" is matched
\* by the offer pattern as well
IsThreeLetters(s) == Len(s) = 3 /\ \A i \in 1..3 : IsUpper(CharAt(toUpperCase(s), i))

extractFromRawPatterns(page, preferredCurrency) ==
    Flatten([k \in 1..Len(page.priceAmounts) |->
                 pushRaw(page.priceAmounts[k], preferredCurrency, 88, preferredCurrency)])
    \o Flatten([k \in 1..Len(page.jsonLdOffers) |->
                 IF page.jsonLdOffers[k].quoted /\ page.jsonLdOffers[k].price # ""
                    /\ IsThreeLetters(page.jsonLdOffers[k].priceCurrency)
                 THEN pushRaw(page.jsonLdOffers[k].price, page.jsonLdOffers[k].priceCurrency,
                              90, preferredCurrency)
                 ELSE <<>>])

JsonLdSelector == "script[type=\"application/ld+json\"]"

\* the offers of the page in the order the walk of the JSON-LD trees meets them
extractFromJsonLd(page, preferredCurrency) ==
    Flatten([k \in 1..Len(page.jsonLdOffers) |->
        LET offer == page.jsonLdOffers[k]
            currency == toUpperCase(IF offer.priceCurrency # "" THEN offer.priceCurrency
                                    ELSE IF preferredCurrency # "" THEN preferredCurrency
                                    ELSE "USD")
            price == normalizePriceString(offer.price, currency)
        IN  IF IsPositive(price)
            THEN <<[price |-> Val(price),
                    currency |-> IF currency \in SUPPORTED_CURRENCIES THEN currency
                                 ELSE preferredCurrency,
                    selector |-> JsonLdSelector, source |-> "json-ld", score |-> 95]>>
            ELSE <<>>])

\* content attribute, else the text
ElementText(el) == IF el.content # "" THEN el.content ELSE el.text

First(s, n) == SubSeq(s, 1, IF Len(s) < n THEN Len(s) ELSE n)

Option(o) == IF o = None THEN <<>> ELSE <<Val(o)>>

collectSelectorCandidates(page, selectors, preferredCurrency, source, scoreBase) ==
    Flatten([k \in 1..Len(selectors) |->
        LET elements == First(SelectSeq(page.elements,
                                        LAMBDA el : selectors[k] \in el.matches), 5)
        IN  Flatten([j \in 1..Len(elements) |->
                Option(buildCandidate(ElementText(elements[j]), selectors[k], source,
                                      preferredCurrency, scoreBase))])])

PriceLikeWords ==
    {"price", "fiyat", "discount", "sale", "deal", "ourprice", "$", "try", "usd", "eur", "gbp",
     "jpy", "cad", "aud", "chf", "cny"}

\* the text fragments of the body that look like a price
priceLikeTexts(page) ==
    Flatten([k \in 1..Len(page.elements) |->
        LET compact == Trim(CollapseSpaces(page.elements[k].text))
        IN  IF Len(compact) < 2 \/ Len(compact) > 140 THEN <<>>
            ELSE IF MatchesAny(toLowerCase(compact), PriceLikeWords) THEN <<compact>>
            ELSE <<>>])

TextCandidates(page, preferredCurrency) ==
    LET texts == First(priceLikeTexts(page), 120)
    IN  Flatten([k \in 1..Len(texts) |->
                    Option(buildCandidate(texts[k], "", "text", preferredCurrency, 30))])

RECURSIVE Unique(_)
Unique(s) ==
    IF s = <<>> THEN <<>>
    ELSE LET front == Unique(SubSeq(s, 1, Len(s) - 1))
         IN  IF \E k \in 1..Len(front) : front[k] = s[Len(s)] THEN front
             ELSE Append(front, s[Len(s)])

customSelectors(customSelector) ==
    <<customSelector, "#" \o customSelector, "." \o customSelector,
      "[data-test-id=\"" \o customSelector \o "\"]", "[data-testid=\"" \o customSelector \o "\"]">>

AmazonMetaSelectors ==
    <<"meta[property=\"og:price:amount\"]", "meta[itemprop=\"price\"]",
      "meta[property=\"product:price:amount\"]">>

\* every candidate of the page, in the order parseHtml collects them
Candidates(page, customSelector, targetUrl) ==
    LET hints == getDomainHints(targetUrl)
        preferredCurrency == hints.preferredCurrency
        isAmazon == isAmazonTarget(targetUrl)
        selectors == IF isAmazon THEN Unique(hints.selectors \o AmazonMetaSelectors)
                     ELSE Unique(hints.selectors \o BASE_PRICE_SELECTORS)
    IN  extractFromJsonLd(page, preferredCurrency)
        \o (IF ~isAmazon THEN extractFromRawPatterns(page, preferredCurrency) ELSE <<>>)
        \o (IF customSelector # ""
            THEN collectSelectorCandidates(page, customSelectors(customSelector),
                                           preferredCurrency, "custom", 88)
            ELSE <<>>)
        \o collectSelectorCandidates(page, selectors, preferredCurrency, "selector", 60)
        \o (IF ~isAmazon THEN TextCandidates(page, preferredCurrency) ELSE <<>>)

AmazonScopeWords ==
    {"#coreprice", "#priceblock_", "#price_inside_buybox", "#apex_",
     "twister-plus-price-data-price", "meta[itemprop=\"price\"]",
     "meta[property=\"og:price:amount\"]", "meta[property=\"product:price:amount\"]"}

\* the candidate passes the Amazon gate
InAmazonScope(c, preferredCurrency) ==
    /\ c.source = "custom" \/ MatchesAny(toLowerCase(c.selector), AmazonScopeWords)
    /\ c.currency = preferredCurrency

SameKey(a, b) == a.selector = b.selector /\ a.price = b.price /\ a.currency = b.currency

\* the Map of rankCandidates: one entry per key, in the order of first appearance, holding
\* the entry of the highest score
RECURSIVE Dedup(_, _)
Dedup(seen, candidates) ==
    IF candidates = <<>> THEN seen
    ELSE LET c == Head(candidates)
             at == {k \in 1..Len(seen) : SameKey(seen[k], c)}
             old == CHOOSE j \in at : TRUE
         IN  Dedup(IF at = {} THEN Append(seen, c)
                   ELSE IF c.score > seen[old].score THEN [seen EXCEPT ![old] = c]
                   ELSE seen, Tail(candidates))

\* Array.prototype.sort with (a, b) => b.score - a.score is stable
RECURSIVE SortByScore(_)
SortByScore(s) ==
    IF s = <<>> THEN <<>>
    ELSE LET top == CHOOSE k \in 1..Len(s) :
                        /\ \A j \in 1..Len(s) : s[j].score <= s[k].score
                        /\ \A j \in 1..(k - 1) : s[j].score < s[k].score
         IN  <<s[top]>> \o SortByScore(SubSeq(s, 1, top - 1) \o SubSeq(s, top + 1, Len(s)))

rankCandidates(candidates) == SortByScore(Dedup(<<>>, candidates))

normalizeConfidence(value) == Max(0, Min(100, value))

shouldSuppressAbove90(isAmazon, availability) ==
    isAmazon /\ availability.status = "out_of_stock" /\ availability.confidence >= 90

shouldSuppressAmazonOutOfStockPrice(isAmazon, availability) ==
    isAmazon /\ availability.status = "out_of_stock" /\ availability.confidence >= 80

parseHtml(page, customSelector, targetUrl) ==
    LET preferredCurrency == getDomainHints(targetUrl).preferredCurrency
        isAmazon == isAmazonTarget(targetUrl)
        availability == detectAvailability(page, targetUrl)
        candidates == Candidates(page, customSelector, targetUrl)
        amazonScopedCandidates ==
            IF isAmazon
            THEN SelectSeq(candidates, LAMBDA c : InAmazonScope(c, preferredCurrency))
            ELSE candidates
        ranked == rankCandidates(amazonScopedCandidates)
        noPriceConfidence == IF availability.confidence > 0 /\ availability.status = "out_of_stock"
                             THEN availability.confidence ELSE 0
    IN  IF ranked = <<>> \/ shouldSuppressAmazonOutOfStockPrice(isAmazon, availability)
        THEN [price |-> None, currency |-> preferredCurrency,
              confidence |-> normalizeConfidence(noPriceConfidence),
              selectorUsed |-> "", source |-> "", availability |-> availability,
              candidates |-> candidates, ranked |-> ranked]
        ELSE [price |-> Some(ranked[1].price), currency |-> ranked[1].currency,
              confidence |-> normalizeConfidence(ranked[1].score),
              selectorUsed |-> ranked[1].selector, source |-> ranked[1].source,
              availability |-> availability, candidates |-> candidates, ranked |-> ranked]

\* ------------------------------------------------------------------- pages
TargetUrls == {"https://www.amazon.com/dp/B000TEST01", "https://shop.example.com/p/1"}

NoAvailability ==
    [availabilityMeta |-> <<>>, jsonLdAvailability |-> <<>>, stockTexts |-> <<>>,
     buttons |-> <<>>, selects |-> <<>>, unqualifiedBuyBox |-> FALSE,
     buyingOptionsStructure |-> FALSE]

NoPrices == [jsonLdOffers |-> <<>>, priceAmounts |-> <<>>, elements |-> <<>>]

AddToCart == [text |-> "Add to Cart", attrs |-> "add-to-cart-button", disabled |-> FALSE]
AddToCartDisabled == [text |-> "Add to Cart", attrs |-> "add-to-cart-button", disabled |-> TRUE]
NotifyMe == [text |-> "Notify me", attrs |-> "", disabled |-> FALSE]
SelectSize == [text |-> "Select size", attrs |-> "", disabled |-> FALSE]
SeeBuyingOptions == [text |-> "See All Buying Options", attrs |-> "", disabled |-> FALSE]

ButtonPool == {AddToCart, AddToCartDisabled, NotifyMe, SelectSize, SeeBuyingOptions}

ButtonRows ==
    {<<>>} \cup {<<b>> : b \in ButtonPool}
           \cup {<<AddToCart, AddToCartDisabled>>, <<AddToCartDisabled, SelectSize>>,
                 <<SeeBuyingOptions, AddToCart>>, <<AddToCart, SeeBuyingOptions>>,
                 <<NotifyMe, AddToCartDisabled>>, <<SelectSize, AddToCart>>}

SizeSelect == [optionCount |-> 3, attrs |-> "size"]
\* a select with several options and no variant-like name
OptionSelect == [optionCount |-> 2, attrs |-> "dropdown"]

\* the pages the classifier is run on
AvailabilityPages ==
    {NoPrices @@ a : a \in
        [availabilityMeta : {<<>>, <<"https://schema.org/InStock">>},
         jsonLdAvailability : {<<>>, <<"https://schema.org/InStock">>,
                               <<"https://schema.org/OutOfStock">>},
         stockTexts : {<<>>, <<"In Stock">>, <<"Currently unavailable.">>},
         buttons : ButtonRows,
         selects : {<<>>, <<SizeSelect>>},
         unqualifiedBuyBox : BOOLEAN,
         buyingOptionsStructure : {FALSE}]}
    \cup {[NoAvailability EXCEPT !.buyingOptionsStructure = TRUE] @@ NoPrices,
          [NoAvailability EXCEPT !.buttons = <<AddToCartDisabled>>,
                                 !.selects = <<OptionSelect>>] @@ NoPrices,
          [NoAvailability EXCEPT !.jsonLdAvailability = <<"https://schema.org/OnlineOnly">>]
              @@ NoPrices,
          [NoAvailability EXCEPT !.availabilityMeta = <<"https://schema.org/OutOfStock">>,
                                 !.jsonLdAvailability = <<"https://schema.org/InStock">>]
              @@ NoPrices}

Offer99 == [price |-> "99.00", priceCurrency |-> "USD", quoted |-> TRUE]
Offer105 == [price |-> "105", priceCurrency |-> "EUR", quoted |-> FALSE]

\* <meta itemprop="price" content="97.50">
MetaPrice ==
    <<[matches |-> {"meta[itemprop=\"price\"]", "[itemprop=\"price\"]"},
       content |-> "97.50", text |-> ""]>>

\* <div id="corePrice_feature_div"><span class="a-price"><span class="a-offscreen">
CorePrice ==
    <<[matches |-> {"[class*=\"price\"]"}, content |-> "", text |-> "$98.00"],
      [matches |-> {"#corePrice_feature_div .a-price .a-offscreen", ".a-price .a-offscreen"},
       content |-> "", text |-> "$98.00"]>>

\* <span class="price">
ClassPrice ==
    <<[matches |-> {"[class*=\"price\"]", ".price"}, content |-> "",
       text |-> "Price: $120.00"]>>

PricePages ==
    [jsonLdOffers : {<<>>, <<Offer99>>, <<Offer99, Offer105>>},
     priceAmounts : {<<>>},
     elements : {m \o c \o p : m \in {<<>>, MetaPrice}, c \in {<<>>, CorePrice},
                                p \in {<<>>, ClassPrice}}]
    \cup {[NoPrices EXCEPT !.priceAmounts = <<"96.00">>],
          [NoPrices EXCEPT !.priceAmounts = <<"96.00">>, !.jsonLdOffers = <<Offer99>>]}

StockPages ==
    {NoAvailability,
     [NoAvailability EXCEPT !.buttons = <<AddToCart>>],
     [NoAvailability EXCEPT !.buttons = <<AddToCartDisabled>>],
     [NoAvailability EXCEPT !.buttons = <<NotifyMe>>],
     [NoAvailability EXCEPT !.jsonLdAvailability = <<"https://schema.org/OutOfStock">>],
     [NoAvailability EXCEPT !.buyingOptionsStructure = TRUE]}

\* the pages the extractor is run on
ParsePages == {p @@ a : p \in PricePages, a \in StockPages}

\* item.selector: none, the wildcard, a class name
SelectorHints == {"", "[class*=\"price\"]", "price"}

\* one call of a parser function on an input that satisfies `possible`: the call and
\* what it returned are recorded, the server's state is left alone
Returned(possible, fn, arg, res) ==
    /\ call = NoCall
    /\ possible
    /\ call' = [fn |-> fn, arg |-> arg, res |-> res]
    /\ UNCHANGED <<diagnostics, dataFile, now, items, lists, alertRules, exchangeRates, isChecking, checkingItemId,
                   browserInstance, procs, alertCooldownByKey, sweep, api, fetch,
                   lastDispatch, alertLog, response, trigger, checksStarted, envUsed>>

\* the Amazon buy-box scan runs on Amazon targets only, so only their pages carry its flag
DetectAvailability(page, targetUrl) ==
    Returned(page.unqualifiedBuyBox => isAmazonTarget(targetUrl),
             "detectAvailability",
             [page |-> page, customSelector |-> "", targetUrl |-> targetUrl],
             detectAvailability(page, targetUrl))

ParseHtml(page, customSelector, targetUrl) ==
    Returned(TRUE,
             "parseHtml",
             [page |-> page, customSelector |-> customSelector, targetUrl |-> targetUrl],
             parseHtml(page, customSelector, targetUrl))

NextParse ==
    \/ \E page \in AvailabilityPages : \E targetUrl \in TargetUrls :
           DetectAvailability(page, targetUrl)
    \/ \E page \in ParsePages : \E customSelector \in SelectorHints :
           \E targetUrl \in TargetUrls : ParseHtml(page, customSelector, targetUrl)

\* the parser reads nothing of the server's state: one start state is enough
InitParse == Init /\ items = <<>>

SpecParse == InitParse /\ [][NextParse]_vars

\* ------------------------------------------------------------- number strings
\* the decimal digits of a whole number
RECURSIVE IntToString(_)
IntToString(n) ==
    IF n < 10 THEN CharAt(DigitChars, n + 1)
    ELSE IntToString(n \div 10) \o CharAt(DigitChars, (n % 10) + 1)

\* the digits after the point of n / d, n < d, d a power of ten's divisor
RECURSIVE FractionDigits(_, _)
FractionDigits(n, d) ==
    IF n = 0 THEN ""
    ELSE CharAt(DigitChars, ((10 * n) \div d) + 1) \o FractionDigits((10 * n) % d, d)

\* String(n) of a non-negative number with a finite decimal expansion
NumberToString(number) ==
    LET whole == number[1] \div number[2]
        rest == number[1] % number[2]
    IN  IntToString(whole) \o (IF rest = 0 THEN "" ELSE "." \o FractionDigits(rest, number[2]))

\* the numeric strings normalizePriceString is given: a whole part and a tail of
\* separators and digits
WholeParts == {"1", "12", "999", " 7"}
NumberTails == {"", ".5", ",5", ".50", ",50", ".234", ",234", ".299,00", ",299.50",
                ".234.567", " 000", ",2345"}
RawNumbers == {w \o t : w \in WholeParts, t \in NumberTails} \cup {"", "abc"}
CurrencyHints == {"USD", "TRY", "EUR"}

NormalizePriceString(rawNum, currencyHint) ==
    Returned(TRUE,
             "normalizePriceString",
             [rawNum |-> rawNum, currencyHint |-> currencyHint],
             normalizePriceString(rawNum, currencyHint))

NextNormalize ==
    \E rawNum \in RawNumbers : \E currencyHint \in CurrencyHints :
        NormalizePriceString(rawNum, currencyHint)

SpecNormalize == InitParse /\ [][NextNormalize]_vars

\* ------------------------------------------------------------ progress of a sweep
\* the steps of checkPrices the event loop runs once the awaited promise has settled
\* (the fetch, the 2 s timer, saveData, which catches its own errors)
SweepProgress(s) ==
    \/ \E o \in CoreOutcomes : CheckDone(s, o)
    \/ SweepNext(s)
    \/ SweepSaved(s)

\* the steps of fetchWithPuppeteer: every awaited call of the browser returns or throws
FetchProgress(f) ==
    \/ GetBrowserLaunched(f)
    \/ GetBrowserClosed(f)
    \/ \E res \in FetchResults : PageSettled(f, res)
    \/ CrashRecovered(f)
    \/ PageClosed(f)

\* the server with browser crashes and UI fetches, where no started step waits for ever
SpecLive ==
    /\ Init
    /\ [][NextPool]_vars
    /\ \A s \in SweepIds : WF_vars(SweepProgress(s))
    /\ \A f \in Fetchers : WF_vars(FetchProgress(f))

\* ------------------------------------------------------------------- claims
\* C1: at most one sweep is in progress at any time, and a tick or a manual trigger
\* that arrives while a sweep is running starts no sweep and checks no item: it leaves
\* the sweeps, the fetches, the items and the check budget as they were
C1_SingleSweep ==
    [][/\ Cardinality(ActiveSweeps') <= 1
       /\ (ActiveSweeps # {} /\ trigger' # "") =>
             UNCHANGED <<sweep, fetch, items, isChecking, checkingItemId, checksStarted>>]_vars

\* a tick or a manual trigger has just arrived during the pause between two checks
C1_TriggerDuringSweep ==
    trigger # "" /\ \E s \in SweepIds : sweep[s].pc = "sleep"

\* C2: a sweep's fetch of an item's URL is under way only if validateFetchUrl accepts
\* that URL
C2_SweepFetchValidated ==
    \A s \in SweepIds :
        fetch[SweepFetcher(s)].pc # "idle" =>
            validateFetchUrl(fetch[SweepFetcher(s)].url, FETCH_ALLOWED_HOSTS) = "ok"

\* C3: an alert (rule, item) is dispatched only if it was never dispatched before or
\* the previous dispatch lies at least notifyCooldownMinutes back (the value the sweep
\* read); an occurrence inside that window is not dispatched and leaves the recorded
\* time of the previous dispatch as it was
C3_Cooldown ==
    \A e \in alertLog :
        /\ e.sent => (e.prev = 0 \/ e.at - e.prev >= e.cooldownMinutes)
        /\ (e.prev # 0 /\ e.at - e.prev < e.cooldownMinutes) =>
              /\ ~e.sent
              /\ lastDispatch[e.key] = e.prev
              /\ alertCooldownByKey[e.key] = e.prev

\* an alert is dispatched for the second time, after its window
C3_SecondDispatch ==
    \E e \in alertLog : e.sent /\ e.prev # 0 /\ e.at - e.prev >= e.cooldownMinutes

\* an occurrence inside the window has been suppressed
C3_Suppressed ==
    \E e \in alertLog : ~e.sent /\ e.prev # 0


\* the stored items that carry the id of the item a sweep has just checked
StoredUnderCheck(s) ==
    {i \in 1..Len(items) : items[i].id = sweep[s].startIds[sweep[s].idx]}

\* C4: what a check of the sweep writes is not lost to an edit: in the pause after the
\* check of an item, the stored item of that id carries the attempt time and the
\* status the check wrote
C4_SweepWriteStored ==
    \A s \in SweepIds :
        sweep[s].pc = "sleep" =>
            \A i \in StoredUnderCheck(s) :
                /\ items[i].lastCheckAttempt = Some(sweep[s].nowIso)
                /\ items[i].lastCheckStatus = CurObj(sweep[s]).lastCheckStatus

\* C5: a sweep checks the items its array held at the start once each, in the order of
\* the array: a check of element idx brings the checked ids to the first idx ids, a
\* check that fails leaves lastCheckStatus = fail on the item it checked, and the sweep
\* ends only when every id has been checked
C5_EveryItemOnce ==
    [][\A s \in SweepIds :
          /\ \A o \in AllOutcomes :
                CheckDone(s, o) =>
                    /\ sweep'[s].checkedIds = SubSeq(sweep[s].startIds, 1, sweep[s].idx)
                    /\ sweep'[s].checkedIds = Append(sweep[s].checkedIds, CurObj(sweep[s]).id)
                    /\ ~CheckIsOk(o) => CurObj(sweep[s])'.lastCheckStatus = "fail"
          /\ (sweep[s].pc = "sleep" /\ sweep'[s].pc \in {"save", "idle"}) =>
                sweep[s].checkedIds = sweep[s].startIds
          /\ (sweep[s].pc = "sleep" /\ sweep'[s].pc = "fetch") =>
                /\ sweep'[s].idx = Len(sweep[s].checkedIds) + 1
                /\ sweep'[s].startIds = sweep[s].startIds]_vars

\* the second item of a sweep has been checked after the check of the first one failed
C5_CheckAfterFailure ==
    \E s \in SweepIds :
        /\ sweep[s].pc = "sleep"
        /\ sweep[s].idx = 2
        /\ sweep[s].checkedIds = sweep[s].startIds
        /\ ItemAt(sweep[s], 1).lastCheckStatus = "fail"

\* C6: POST /api/check-now answers 429 exactly when a sweep is in progress at the call;
\* otherwise it answers 200 in the step that starts the sweep, whose first check is
\* then still under way (if there is an item to check)
C6_CheckNow ==
    [][response'.route = "/api/check-now" =>
          /\ response'.status = 429 <=> ActiveSweeps # {}
          /\ response'.status # 429 =>
                /\ response'.status = 200
                /\ checksStarted' = checksStarted + Len(items)
                /\ items # <<>> =>
                      \E s \in SweepIds :
                          /\ sweep'[s].pc = "fetch"
                          /\ sweep'[s].checkedIds = <<>>
                          /\ sweep'[s].startIds = [i \in 1..Len(items) |-> items[i].id]
          /\ response'.status = 429 => UNCHANGED <<sweep, fetch, items, checksStarted>>]_vars

\* the manual trigger has been answered 429
C6_Busy ==
    response = [route |-> "/api/check-now", status |-> 429]

\* the manual trigger has been answered 200 with the sweep it started under way
C6_Started ==
    /\ response = [route |-> "/api/check-now", status |-> 200]
    /\ ActiveSweeps # {}

\* C7: at most one browser process exists at any time
C7_OneBrowser ==
    Cardinality(LiveBrowsers) <= 1


\* the outcome classes, read off the outcome itself
OutOfStockSeen(o) == o.kind = "html" /\ o.extraction.availability.status = "out_of_stock"
PriceSeen(o) == o.kind = "html" /\ IsSome(o.extraction.price)
OkOutcome(o) == PriceSeen(o) \/ OutOfStockSeen(o)

\* C8: a check appends no history entry or one, to the item it checks only, and one
\* only if the check is OK, the item is not out of stock, and the new price is not the
\* price of the last entry or that entry is more than 24 h old
C8_HistoryAppend ==
    [][\A s \in SweepIds : \A o \in AllOutcomes :
          CheckDone(s, o) =>
              LET before == CurObj(sweep[s]).history
                  after == CurObj(sweep[s])'.history
              IN  /\ \/ after = before
                     \/ /\ Len(after) = Len(before) + 1
                        /\ SubSeq(after, 1, Len(before)) = before
                        /\ OkOutcome(o)
                        /\ ~OutOfStockSeen(o)
                        /\ after[Len(after)] = [date |-> now, price |-> Val(o.extraction.price)]
                        /\ \/ before = <<>>
                           \/ before[Len(before)].price # Val(o.extraction.price)
                           \/ now - before[Len(before)].date > DayMinutes
                  /\ \A i \in 1..Len(items) :
                        (sweep[s].item # Shared \/ i # sweep[s].idx) =>
                            items'[i].history = items[i].history]_vars

\* a check has appended a second entry to an item's history
C8_Appended ==
    \E s \in SweepIds :
        /\ sweep[s].pc = "sleep"
        /\ Len(CurObj(sweep[s]).history) = 2
        /\ CurObj(sweep[s]).history[2].date = now

\* an OK check that found a price has appended nothing: the price is the last entry's
C8_NotAppended ==
    \E s \in SweepIds :
        /\ sweep[s].pc = "sleep"
        /\ CurObj(sweep[s]).lastChecked = Some(sweep[s].nowIso)
        /\ CurObj(sweep[s]).stockStatus = "in_stock"
        /\ Len(CurObj(sweep[s]).history) = 2
        /\ CurObj(sweep[s]).history[2].date < sweep[s].nowIso

\* C9: a check leaves lastCheckAttempt at the time the attempt began, whatever its
\* outcome; it changes lastChecked only if its outcome is OK; and no other step changes
\* either field of an item
C9_CheckStamps ==
    [][/\ \A s \in SweepIds : \A o \in AllOutcomes :
             CheckDone(s, o) =>
                 /\ CurObj(sweep[s])'.lastCheckAttempt = Some(sweep[s].nowIso)
                 /\ CurObj(sweep[s])'.lastChecked # CurObj(sweep[s]).lastChecked => OkOutcome(o)
                 /\ OkOutcome(o) => CurObj(sweep[s])'.lastChecked = Some(sweep[s].nowIso)
       /\ (\A s \in SweepIds : sweep'[s].checkedIds = sweep[s].checkedIds /\ Len(items') = Len(items)) =>
             \A i \in 1..Len(items) :
                 /\ items'[i].lastChecked = items[i].lastChecked
                 /\ items'[i].lastCheckAttempt = items[i].lastCheckAttempt]_vars

\* a check has failed after an earlier OK check of the item: the attempt time is the
\* failed check's, lastChecked is still the earlier one
C9_FailedAfterOk ==
    \E s \in SweepIds :
        /\ sweep[s].pc = "sleep"
        /\ CurObj(sweep[s]).lastCheckStatus = "fail"
        /\ CurObj(sweep[s]).lastCheckAttempt = Some(sweep[s].nowIso)
        /\ IsSome(CurObj(sweep[s]).lastChecked)
        /\ Val(CurObj(sweep[s]).lastChecked) < sweep[s].nowIso

\* currentPrice / fx[currency], null when the price is null or the currency has no rate
PriceOverRate(item) ==
    LET rate == IF item.currency = NULL THEN None ELSE exchangeRates[item.currency]
    IN  IF ~IsSome(item.currentPrice) \/ ~IsSome(rate) THEN None
        ELSE Some(Frac(Val(item.currentPrice) * Val(rate)[2], Val(rate)[1]))

\* C10: every item that has been checked has priceInUSD = currentPrice / fx[currency],
\* null when currentPrice is null or the currency has no rate
C10_PriceInUSD ==
    \A i \in 1..Len(items) :
        IsSome(items[i].lastCheckAttempt) => items[i].priceInUSD = PriceOverRate(items[i])


PrivateDestination == "Refusing private/link-local destination"

\* the address ranges of the guard's contract: loopback, 0.0.0.0, link-local
\* (169.254.0.0/16, fe80::/10), RFC1918 and ULA (fc00::/7)
InRejectedRanges(addr) ==
    IF Len(addr) = 4
    THEN \/ addr[1] = 127
         \/ addr = <<0, 0, 0, 0>>
         \/ addr[1] = 169 /\ addr[2] = 254
         \/ addr[1] = 10
         \/ addr[1] = 172 /\ addr[2] \div 16 = 1
         \/ addr[1] = 192 /\ addr[2] = 168
    ELSE \/ addr = <<0, 0, 0, 0, 0, 0, 0, 1>>
         \/ addr[1] \div 64 = 1018
         \/ addr[1] \div 512 = 126

\* the call of validateFetchUrl got as far as an answer of dns.lookup with records
GuardResolved ==
    /\ call.fn = "validateFetchUrl"
    /\ call.res \notin {"Invalid URL", "Only http/https URLs are allowed",
                        "Refusing localhost fetch", "Host is not allowlisted"}
    /\ call.arg.resolved # DnsFail

\* C11: validateFetchUrl refuses the destination as private whenever one of the
\* addresses the host resolved to lies in a rejected range, whatever the others are
C11_PrivateRejected ==
    (GuardResolved /\ \E addr \in call.arg.resolved : InRejectedRanges(addr)) =>
        call.res = PrivateDestination

\* the checks of validateFetchUrl in their order, each with its message: whether it
\* fails for the call's arguments
GuardChecks ==
    LET parsed == ParseUrl(call.arg.rawUrl)
    IN  << [fails |-> ~parsed.ok, message |-> "Invalid URL"],
           [fails |-> parsed.protocol \notin {"http:", "https:"},
            message |-> "Only http/https URLs are allowed"],
           [fails |-> parsed.hostname = "localhost", message |-> "Refusing localhost fetch"],
           [fails |-> call.arg.allowed # {} /\ parsed.hostname \notin call.arg.allowed,
            message |-> "Host is not allowlisted"],
           [fails |-> call.arg.resolved = DnsFail, message |-> "Failed to resolve hostname"],
           [fails |-> call.arg.resolved = {}, message |-> "Hostname has no DNS records"],
           [fails |-> call.arg.resolved # DnsFail
                        /\ \E addr \in call.arg.resolved : isPrivateOrSpecialIp(addr),
            message |-> PrivateDestination] >>

\* C12: validateFetchUrl reports the first check that fails, in the order unparseable
\* URL, scheme, localhost, allowlist, DNS failure, no records, private destination, and
\* ok only if none fails; http://10.0.0.5/ without allowlist is a private destination,
\* http://example.com/ under the allowlist {example.org} is not allowlisted
C12_FirstFailure ==
    call.fn = "validateFetchUrl" =>
        LET failing == {k \in 1..Len(GuardChecks) : GuardChecks[k].fails}
        IN  /\ failing = {} <=> call.res = "ok"
            /\ failing # {} =>
                  \E k \in failing : /\ \A j \in failing : k <= j
                                     /\ call.res = GuardChecks[k].message
            /\ (call.arg.rawUrl = "http://10.0.0.5/" /\ call.arg.allowed = {}) =>
                  call.res = PrivateDestination
            /\ (call.arg.rawUrl = "http://example.com/" /\ call.arg.allowed = {"example.org"}) =>
                  call.res = "Host is not allowlisted"

\* a host outside the allowlist that resolves into the private network has been
\* reported as not allowlisted
C12_EarlierOfTwo ==
    /\ call.fn = "validateFetchUrl"
    /\ call.res = "Host is not allowlisted"
    /\ call.arg.resolved = {<<93, 184, 216, 34>>, <<192, 168, 1, 7>>}


\* the step dispatches the alert of a rule for an item
Dispatched(rule, id) == \E e \in alertLog' : e.key = AlertKey(rule, id) /\ e.sent

\* the previous dispatch of the alert lies within the cooldown of the sweep's rules
InWindow(rule, id, rules) ==
    /\ lastDispatch[AlertKey(rule, id)] # 0
    /\ now - lastDispatch[AlertKey(rule, id)] < rules.notifyCooldownMinutes

C13_CrossedInWindow ==
    \E e \in alertLog : e.key[1] = "target" /\ ~e.sent /\ e.prev # 0


\* C14: with staleEnabled and a cooldown of at least a minute, a check that fails (the
\* fetch throws, or no price is extracted) for an item whose last OK check began more
\* than staleHours before this one dispatches the stale alert, unless one was
\* dispatched for the item within the cooldown
C14_StaleAlert ==
    [][\A s \in SweepIds : \A o \in AllOutcomes :
          (CheckDone(s, o) /\ sweep[s].rules.notifyCooldownMinutes >= 1) =>
              LET item == CurObj(sweep[s])
                  rules == sweep[s].rules
              IN  (/\ ~OkOutcome(o)
                   /\ rules.staleEnabled
                   /\ IsSome(item.lastChecked)
                   /\ sweep[s].nowIso - Val(item.lastChecked) > rules.staleHours * 60
                   /\ ~InWindow("stale", item.id, rules)) =>
                      Dispatched("stale", item.id)]_vars

\* the stale alert has been dispatched for an item that had an OK check before
C14_StaleAfterOk ==
    \E e \in alertLog :
        /\ e.key[1] = "stale"
        /\ e.sent
        /\ \E i \in 1..Len(items) : items[i].id = e.key[2] /\ IsSome(items[i].lastChecked)


C17_AmazonOutOfStockNoPrice ==
    (/\ call.fn = "parseHtml"
     /\ isAmazonTarget(call.arg.targetUrl)
     /\ call.res.availability.status = "out_of_stock"
     /\ call.res.availability.confidence >= 80)
    => call.res.price = None

\* an Amazon page with ranked candidates and an out-of-stock verdict between 80 and 89
C17_CandidatesSuppressed ==
    /\ call.fn = "parseHtml"
    /\ isAmazonTarget(call.arg.targetUrl)
    /\ call.res.availability.status = "out_of_stock"
    /\ call.res.availability.confidence \in 80..89
    /\ call.res.ranked # <<>>
    /\ call.res.price = None

\* C18: on an Amazon host, for every page and every selector hint, the selector of the
\* winning candidate is never the wildcard [class*="price"]
C18_NoWildcardWinner ==
    (/\ call.fn = "parseHtml"
     /\ isAmazonTarget(call.arg.targetUrl)
     /\ call.res.price # None)
    => ~Includes(call.res.selectorUsed, "[class*=\"price\"]")

\* the candidate extractFromJsonLd is to build for the offer
JsonLdCandidate(offer) ==
    [price |-> Val(normalizePriceString(offer.price, offer.priceCurrency)),
     currency |-> offer.priceCurrency, selector |-> JsonLdSelector, source |-> "json-ld",
     score |-> 95]

\* C19: every JSON-LD offers price/priceCurrency pair of the page is a candidate with
\* score 95, and the result of the extraction is one of these pairs: no selector, custom,
\* raw-json or text candidate outranks them (the out-of-stock suppression of C17 apart)
C19_JsonLdWins ==
    (/\ call.fn = "parseHtml"
     /\ call.arg.page.jsonLdOffers # <<>>
     /\ ~shouldSuppressAmazonOutOfStockPrice(isAmazonTarget(call.arg.targetUrl),
                                             call.res.availability))
    => /\ \A k \in 1..Len(call.arg.page.jsonLdOffers) :
              \E n \in 1..Len(call.res.candidates) :
                  call.res.candidates[n] = JsonLdCandidate(call.arg.page.jsonLdOffers[k])
       /\ call.res.source = "json-ld"
       /\ \E k \in 1..Len(call.arg.page.jsonLdOffers) :
              /\ call.res.price = Some(JsonLdCandidate(call.arg.page.jsonLdOffers[k]).price)
              /\ call.res.currency = call.arg.page.jsonLdOffers[k].priceCurrency

\* the availability verdict of the call
VerdictOf(c) == IF c.fn = "parseHtml" THEN c.res.availability ELSE c.res

\* the meta and JSON-LD availability values of the page
StructuredTokens(page) == page.availabilityMeta \o page.jsonLdAvailability

\* a structured in-stock value that classifies with more confidence than a structured
\* out-of-stock value of the page
StrongerStructuredIn(page) ==
    \E i, o \in 1..Len(StructuredTokens(page)) :
        LET in == classifyStructuredToken(StructuredTokens(page)[i])
            out == classifyStructuredToken(StructuredTokens(page)[o])
        IN  /\ in # None /\ out # None
            /\ Val(in).status = "in_stock" /\ Val(out).status = "out_of_stock"
            /\ Val(in).confidence > Val(out).confidence

\* C20: when the JSON-LD availability of the page holds the OutOfStock token and no
\* structured in-stock value is stronger, the verdict is out_of_stock with confidence of
\* 94 or more, whatever buttons, selects and texts the page holds
C20_StructuredOutOfStock ==
    (/\ call.fn \in {"detectAvailability", "parseHtml"}
     /\ \E k \in 1..Len(call.arg.page.jsonLdAvailability) :
            call.arg.page.jsonLdAvailability[k] = "https://schema.org/OutOfStock"
     /\ ~StrongerStructuredIn(call.arg.page))
    => /\ VerdictOf(call).status = "out_of_stock"
       /\ VerdictOf(call).confidence >= 94

\* the OutOfStock token beside an enabled purchase button, a size select, an in-stock text
\* and a structured InStock value
C20_TokenAgainstSignals ==
    /\ call.fn = "detectAvailability"
    /\ call.arg.page.jsonLdAvailability = <<"https://schema.org/OutOfStock">>
    /\ call.arg.page.availabilityMeta = <<"https://schema.org/InStock">>
    /\ call.arg.page.buttons = <<AddToCart>>
    /\ call.arg.page.selects = <<SizeSelect>>
    /\ call.arg.page.stockTexts = <<"In Stock">>
    /\ call.res.signals.hasEnabledPurchaseAction
    /\ call.res.signals.bestInScore >= 78
    /\ call.res.status = "out_of_stock"

\* the page of the call holds a disabled purchase button, no enabled one, and a select
\* with more than one option
DisabledPurchaseWithSelect(c) ==
    /\ c.fn \in {"detectAvailability", "parseHtml"}
    /\ \E k \in 1..Len(c.arg.page.buttons) : c.arg.page.buttons[k] = AddToCartDisabled
    /\ \A k \in 1..Len(c.arg.page.buttons) : c.arg.page.buttons[k] # AddToCart
    /\ \E k \in 1..Len(c.arg.page.selects) : c.arg.page.selects[k].optionCount > 1

\* a structured value of the page classifies as out of stock with confidence 94 or more
StrongStructuredOut(page) ==
    \E k \in 1..Len(StructuredTokens(page)) :
        LET cls == classifyStructuredToken(StructuredTokens(page)[k])
        IN  cls # None /\ Val(cls).status = "out_of_stock" /\ Val(cls).confidence >= 94

\* C21 as stated: when the only purchase action of the page is disabled and a visible
\* select with more than one option is present, the verdict is in_stock, with or
\* without a visible "select size" prompt
C21_VariantInStockAlways ==
    DisabledPurchaseWithSelect(call) => VerdictOf(call).status = "in_stock"

\* C21 amended: when the only purchase action of the page is disabled and a visible
\* select with more than one option is present, the verdict is in_stock, with or
\* without a visible "select size" prompt, unless the page carries a structured
\* out-of-stock value of confidence 94 or more or an out-of-stock signal scoring 92 or
\* more
C21_VariantInStock ==
    (/\ DisabledPurchaseWithSelect(call)
     /\ ~StrongStructuredOut(call.arg.page)
     /\ VerdictOf(call).signals.bestOutScore < 92)
    => VerdictOf(call).status = "in_stock"

\* a disabled cart button beside a select known by its option count only, no prompt
\* shown: in stock although the disabled button alone scores as out of stock
C21_DisabledCartWithOptions ==
    /\ call.fn = "detectAvailability"
    /\ call.arg.page.buttons = <<AddToCartDisabled>>
    /\ call.arg.page.selects = <<OptionSelect>>
    /\ ~call.res.signals.requiresVariantSelection
    /\ call.res.signals.hasVariantSelectors
    /\ call.res.signals.bestOutScore >= 74
    /\ call.res.status = "in_stock"

\* C22: normalize is idempotent: when normalize(S, C) returns a number n, normalize
\* applied to the decimal string of n with the same hint C returns n again
C22_NormalizeIdempotent ==
    (call.fn = "normalizePriceString" /\ call.res # None)
    => normalizePriceString(NumberToString(Val(call.res)), call.arg.currencyHint) = call.res

\* the step is the check of an item by sweep s
ItemChecked(s) == sweep[s].pc = "fetch" /\ sweep'[s].pc = "sleep"

\* C23: the diagnostics buffer never holds more than 2,000 entries and is ordered
\* newest-first; every per-item check of a sweep adds exactly one entry at the front,
\* whose ok flag is true iff the check ended OK, and when the buffer is full the oldest
\* entry is the one dropped
C23_DiagnosticsBuffer ==
    [][/\ Len(diagnostics') <= 2000
       /\ \A k \in 1..(Len(diagnostics') - 1) :
              diagnostics'[k].time >= diagnostics'[k + 1].time
       /\ \A s \in SweepIds :
              ItemChecked(s) =>
                  /\ Len(diagnostics') = Min(Len(diagnostics) + 1, 2000)
                  /\ Tail(diagnostics') = SubSeq(diagnostics, 1, Len(diagnostics') - 1)
                  /\ Head(diagnostics').itemId = CurObj(sweep[s])'.id
                  /\ Head(diagnostics').time = now
                  /\ Head(diagnostics').ok <=> CurObj(sweep[s])'.lastCheckStatus = "ok"]_vars

\* a failed check has been entered into a full buffer: the entry of 2,000 checks ago
\* is gone, the one of 1,999 checks ago is the last
C23_OldestDropped ==
    /\ Len(diagnostics) = 2000
    /\ ~diagnostics[1].ok
    /\ diagnostics[1].time >= StartTime
    /\ diagnostics[2] = EarlierDiagnostic(1)
    /\ diagnostics[2000] = EarlierDiagnostic(1999)

\* C24: when a check finds the item out of stock and still recovers a price, it sets
\* lastSeenPrice to that price, leaves currentPrice and history as they were, and is
\* recorded as OK
C24_OutOfStockPrice ==
    [][\A s \in SweepIds : \A o \in AllOutcomes :
           (CheckDone(s, o) /\ OutOfStockSeen(o) /\ PriceSeen(o)) =>
               /\ CurObj(sweep[s])'.lastSeenPrice = o.extraction.price
               /\ CurObj(sweep[s])'.currentPrice = CurObj(sweep[s]).currentPrice
               /\ CurObj(sweep[s])'.history = CurObj(sweep[s]).history
               /\ CurObj(sweep[s])'.lastCheckStatus = "ok"
               /\ Head(diagnostics').ok]_vars

\* an item priced 110 has been found out of stock at 98: last seen at 98, still priced
\* 110 with its one history point
C24_SeenWhileOutOfStock ==
    \E s \in SweepIds :
        /\ sweep[s].pc = "sleep"
        /\ CurObj(sweep[s]).stockStatus = "out_of_stock"
        /\ CurObj(sweep[s]).lastSeenPrice = Some(98)
        /\ CurObj(sweep[s]).currentPrice = Some(110)
        /\ Len(CurObj(sweep[s]).history) = 1
        /\ CurObj(sweep[s]).lastCheckStatus = "ok"

C25_OkWithoutPrice ==
    \E s \in SweepIds :
        /\ sweep[s].pc = "sleep"
        /\ CurObj(sweep[s]).lastCheckStatus = "ok"
        /\ CurObj(sweep[s]).stockStatus = "out_of_stock"
        /\ CurObj(sweep[s]).lastSeenPrice = None
        /\ diagnostics # <<>> /\ diagnostics[1].ok /\ diagnostics[1].price = None

\* C26: every completed sweep writes the full items array to the state store before the
\* sweeping flag is cleared: when a sweep ends, the data file holds the items as they
\* are, with the fields the sweep has set, also when no check of the sweep ended OK
C26_SweepPersisted ==
    [][(isChecking /\ ~isChecking') => dataFile' = items']_vars

\* C27: when a fetch fails with an error that names a dead browser session, the catch
\* block leaves the handle cleared and the browser it closed gone, the caller of the
\* fetch is told of a failure, and a fetch that begins with the handle cleared launches
\* a new browser; a fetch that fails for another reason leaves the handle and the
\* browser alone, and a fetch that begins while the handle holds a connected browser
\* uses that browser
C27_BrowserRecovery ==
    [][\A f \in Fetchers :
           /\ (/\ fetch[f].pc \in {"page", "errclosing"}
               /\ fetch'[f].pc \in {"pageclosing", "done"}
               /\ fetch'[f].result = SessionClosed)
              => /\ browserInstance' = 0
                 /\ fetch[f].pc = "errclosing" => procs'[fetch[f].browser] = "gone"
           /\ (/\ fetch[f].pc = "done" /\ fetch[f].result # "html" /\ fetch'[f].pc = "idle")
              => /\ f = ApiFetcher => response'.status = 500
                 /\ \A s \in SweepIds :
                        f = SweepFetcher(s) => CurObj(sweep[s])'.lastCheckStatus = "fail"
           /\ (fetch[f].pc = "idle" /\ fetch'[f].pc # "idle" /\ browserInstance = 0)
              => fetch'[f].pc = "launching"
           /\ (fetch[f].pc = "launching" /\ fetch'[f].pc = "page")
              => /\ fetch'[f].browser \notin 1..Len(procs)
                 /\ browserInstance' = fetch'[f].browser
                 /\ procs'[fetch'[f].browser] = "live"
           /\ (/\ fetch[f].pc \in {"page", "launching"}
               /\ fetch'[f].pc \in {"pageclosing", "done"}
               /\ fetch'[f].result = OtherError)
              => UNCHANGED <<browserInstance, procs>>
           /\ (/\ fetch[f].pc = "idle" /\ fetch'[f].pc # "idle"
               /\ browserInstance # 0 /\ isConnected(browserInstance))
              => fetch'[f].pc = "page" /\ fetch'[f].browser = browserInstance]_vars

\* a sweep's fetch has failed on a dead session of the first browser, which was still
\* connected: the catch block has closed it and cleared the handle
C27_HandleCleared ==
    \E s \in SweepIds :
        /\ fetch[SweepFetcher(s)].pc \in {"pageclosing", "done"}
        /\ fetch[SweepFetcher(s)].result = SessionClosed
        /\ fetch[SweepFetcher(s)].page
        /\ fetch[SweepFetcher(s)].browser = 1
        /\ procs = <<"gone">>
        /\ browserInstance = 0
        /\ envUsed = 0

\* C28: currentlySweepingItemId is non-null only while a sweep is in progress; while an
\* item's check is in flight it equals that item's id; and it is null in every state
\* after the sweep has ended
C28_SweepingItemId ==
    /\ checkingItemId # NULL => (isChecking /\ ActiveSweeps # {})
    /\ \A s \in SweepIds :
           sweep[s].pc \in {"fetch", "sleep"} =>
               /\ checkingItemId = sweep[s].startIds[sweep[s].idx]
               /\ checkingItemId = CurObj(sweep[s]).id
    /\ ~isChecking => checkingItemId = NULL

\* the second item of a sweep is in flight after an edit has replaced the items array
C28_SecondItemInFlight ==
    \E s \in SweepIds :
        /\ sweep[s].pc = "fetch"
        /\ sweep[s].idx = 2
        /\ ~sweep[s].aliased
        /\ checkingItemId = "b"

\* C29: provided every fetch returns or throws, every started sweep ends: its loop is
\* left, the flag isChecking is cleared, and checkPrices is then not busy, so a later
\* tick or POST /api/check-now starts a new sweep
C29_SweepEnds ==
    /\ \A s \in SweepIds :
           (sweep[s].pc # "idle") ~> (sweep[s].pc = "idle" /\ ~isChecking /\ ~checkPricesBusy)
    /\ isChecking ~> (~isChecking /\ ActiveSweeps = {})

\* a sweep of two items has ended after a check that threw and a check that was OK
C29_EndedAfterMix ==
    /\ ActiveSweeps = {}
    /\ ~isChecking
    /\ checksStarted = 2
    /\ \E i, j \in 1..Len(items) :
           /\ items[i].lastCheckStatus = "fail"
           /\ items[i].lastCheckError = FetchFailedMessage
           /\ items[j].lastCheckStatus = "ok"
           /\ items[j].lastCheckAttempt = items[i].lastCheckAttempt

\* C30: a check that ends with lastCheckStatus = fail changes only lastCheckAttempt,
\* lastCheckStatus and lastCheckError of the item it checked: every other field
\* (currentPrice, history, lastSeenPrice, priceInUSD, currency, lastChecked and the
\* stock fields among them) keeps its value from before the check
C30_FailedCheckFrame ==
    [][\A s \in SweepIds : \A o \in AllOutcomes :
          (CheckDone(s, o) /\ ~CheckIsOk(o)) =>
              LET before == CurObj(sweep[s])
                  after == CurObj(sweep[s])'
              IN  /\ after.lastCheckStatus = "fail"
                  /\ [after EXCEPT !.lastCheckAttempt = before.lastCheckAttempt,
                                   !.lastCheckStatus = before.lastCheckStatus,
                                   !.lastCheckError = before.lastCheckError] = before]_vars

====
